---- MODULE Spec2Model ----
(***************************************************************************)
(* audiothek-downloader: the freshness reconciliation of one episode's     *)
(* assets (AudiothekDownloader._process_single_node and the functions it   *)
(* calls) and the aggregation of per-node outcomes (_save_nodes,           *)
(* parallel_process, parallel_download_nodes).                             *)
(*                                                                         *)
(* Spec       one episode, reconciled again and again; every cycle meets   *)
(*            a remote that may answer anything.                           *)
(* SpecRerun  one download and its repetition: the same node, the remote   *)
(*            answering every request as it did before.                    *)
(* SpecPool   one node list, aggregated by the sequential loop and by the  *)
(*            worker pool.                                                 *)
(* SpecPages  one call of a paginating client function, or one download    *)
(*            of a listing, against a server that holds the items.         *)
(* SpecCache  threads calling get, set, clear and _graphql_get on one      *)
(*            response cache while time passes.                            *)
(* SpecLock   workers entering _locked_file_operation for one asset.       *)
(* SpecStem   the folder and filename stem of the entries of a node list.  *)
(* SpecCollection  the folders written by the download of a listing.       *)
(* SpecResolver    determine_resource_type_from_id and parse_url.          *)
(***************************************************************************)
EXTENDS Integers, Sequences, FiniteSets, TLC

(* ------------------------------ bounds -------------------------------- *)

\* number of reconciliation cycles of the episode
MaxCycles == 2
\* largest small body / content-length, in bytes
MaxSize == 4
\* nodes in the list handed to _save_nodes
MaxNodes == 3
\* size of the worker pool
MaxWorkers == 2
\* file system faults injected in one behaviour
MaxFaults == 1

(* ------------------------- program constants -------------------------- *)

\* client.py: "if len(content) < 1000"
SoftLimit == 1000
\* the shortest error indicator of client.py:139 is "404"
MinErrLen == 3

(* ------------------------------ bytes --------------------------------- *)

\* A body is identified by its length and its contents: "a" is an audio
\* payload, "err" is a text holding an error indicator,
\* "part" is what an interrupted write leaves, "doc1"/"doc2" are JSON
\* documents.  NoFile stands for a path that does not exist.
NoFile == [len |-> -1, kind |-> "none"]
SmallSizes == {0} \cup (MinErrLen..MaxSize)
Sizes == SmallSizes \cup {SoftLimit}
AudioBodies == [len : SmallSizes, kind : {"a"}]
ErrBodies == [len : {MinErrLen, SoftLimit}, kind : {"err"}]
Bodies == AudioBodies \cup ErrBodies
\* what an error response (404, 5xx) carries
ErrPage == [len |-> MinErrLen, kind |-> "err"]
\* what a write that failed after open() leaves behind
Partial == [len |-> 0, kind |-> "part"]
ImageBody == [len |-> MaxSize, kind |-> "a"]
Doc(d) == [len |-> MaxSize, kind |-> d]

(* ------------------------------- URLs --------------------------------- *)

U_MP3 == "https://cdn/d/ep.mp3"
U_RAW == "https://cdn/d/ep"
U_M4A == "https://cdn/s/ep.m4a"
U_AAC == "https://cdn/s/aac/ep"
U_MP4 == "https://cdn/s/mp4/ep"
U_IMG == "https://cdn/img_2000.jpg"
U_IMG1 == "https://cdn/img1x1_2000.jpg"
AudioURLs == {U_MP3, U_RAW, U_M4A, U_AAC, U_MP4}
URLs == AudioURLs \cup {U_IMG, U_IMG1}

\* str.endswith / "in" on the lower-cased URL, tabulated for the URLs above
EndsWith(url, suffix) ==
    \/ url = U_MP3 /\ suffix = ".mp3"
    \/ url = U_M4A /\ suffix = ".m4a"
Contains(url, sub) ==
    \/ url = U_AAC /\ sub = "aac"
    \/ url = U_MP4 /\ sub = "mp4"

_get_audio_file_extension(url) ==
    IF EndsWith(url, ".m4a") THEN ".m4a"
    ELSE IF EndsWith(url, ".mp3") THEN ".mp3"
    ELSE IF Contains(url, "aac") THEN ".aac"
    ELSE IF Contains(url, "mp4") THEN ".mp4"
    ELSE ".mp3"

(* ---------------------------- file system ----------------------------- *)

AudioExts == {".m4a", ".mp3", ".aac", ".mp4"}
Live(ext) == [ext |-> ext, bak |-> FALSE]
Bak(ext) == [ext |-> ext, bak |-> TRUE]
P_IMG == Live(".jpg")
P_IMG1 == Live("_x1.jpg")
P_JSON == Live(".json")
Paths == {Live(e) : e \in AudioExts} \cup {Bak(e) : e \in AudioExts}
             \cup {P_IMG, P_IMG1, P_JSON}
\* file_path + ".bak"
BackupPath(p) == [p EXCEPT !.bak = TRUE]
Exists(fs, p) == fs[p] # NoFile
GetSize(fs, p) == fs[p].len
EmptyFs == [p \in Paths |-> NoFile]

\* os.rename(src, dst): dst is replaced, src disappears
Rename(fs, src, dst) == [fs EXCEPT ![dst] = fs[src], ![src] = NoFile]

\* variant: reports success without renaming
backup_file_noop(fs, p, ok) ==
    IF ~Exists(fs, p) THEN [ok |-> FALSE, fs |-> fs]
    ELSE [ok |-> ok, fs |-> fs]

\* variant: removes the file instead of renaming it
backup_file_delete(fs, p, ok) ==
    IF ~Exists(fs, p) THEN [ok |-> FALSE, fs |-> fs]
    ELSE IF ok THEN [ok |-> TRUE, fs |-> [fs EXCEPT ![p] = NoFile]]
    ELSE [ok |-> FALSE, fs |-> fs]

\* file_utils.backup_file; ok: whether os.rename succeeds
backup_file(fs, p, ok) ==
    IF ~Exists(fs, p) THEN [ok |-> FALSE, fs |-> fs]
    ELSE IF ok THEN [ok |-> TRUE, fs |-> Rename(fs, p, BackupPath(p))]
    ELSE [ok |-> FALSE, fs |-> fs]

\* variant: a successful rename is reported as a failure
restore_backup_unreported(fs, bp, p, ok) ==
    IF ~Exists(fs, bp) THEN [ok |-> FALSE, fs |-> fs]
    ELSE IF ok THEN [ok |-> FALSE, fs |-> Rename(fs, bp, p)]
    ELSE [ok |-> FALSE, fs |-> fs]

\* file_utils.restore_backup; ok: whether os.rename succeeds
restore_backup(fs, bp, p, ok) ==
    IF ~Exists(fs, bp) THEN [ok |-> FALSE, fs |-> fs]
    ELSE IF ok THEN [ok |-> TRUE, fs |-> Rename(fs, bp, p)]
    ELSE [ok |-> FALSE, fs |-> fs]

\* open(path, "wb") followed by write(content): "ok", "openfail" (open
\* raised OSError, nothing touched), "partial" (write raised after open)
WriteOutcomes == {"ok", "openfail", "partial"}
WriteFile(fs, p, content, w) ==
    IF w = "ok" THEN [fs EXCEPT ![p] = content]
    ELSE IF w = "partial" THEN [fs EXCEPT ![p] = Partial]
    ELSE fs

\* variant: never reports a match
compare_json_content_never(fs, p, data) == FALSE

\* file_utils.compare_json_content
compare_json_content(fs, p, data) ==
    IF ~Exists(fs, p) THEN FALSE
    ELSE IF fs[p].kind \notin {"doc1", "doc2"} THEN FALSE
    ELSE fs[p] = Doc(data)

(* ------------------------------ remote -------------------------------- *)

\* HEAD: "ok" with a content-length (0 when the header is missing,
\* client.py:219), "404", or "err" (another HTTP error, a network error)
Unknown == [st |-> "unknown", len |-> 0, body |-> NoFile]
HeadOutcomes == [st : {"ok"}, len : Sizes, body : {NoFile}]
                  \cup [st : {"404", "err"}, len : {0}, body : {NoFile}]
\* GET: a 2xx response with a body, a 404 or another error status with an
\* error page, or no response at all
GetOutcomes == [st : {"ok"}, len : {0}, body : Bodies]
                 \cup [st : {"404", "httperr"}, len : {0}, body : {ErrPage}]
                 \cup [st : {"neterr"}, len : {0}, body : {NoFile}]
\* the answers of the image host
ImageGetOutcomes == [st : {"ok"}, len : {0}, body : {ImageBody}]
                      \cup [st : {"404"}, len : {0}, body : {ErrPage}]
                      \cup [st : {"neterr"}, len : {0}, body : {NoFile}]

\* client._check_file_availability: (is_available, content_length or None);
\* None is NoLength
NoLength == -1
_check_file_availability(h) ==
    IF h.st = "ok" THEN [avail |-> TRUE, len |-> h.len]
    ELSE IF h.st = "404" THEN [avail |-> FALSE, len |-> NoLength]
    ELSE [avail |-> TRUE, len |-> NoLength]

\* client._get_content_length: the length or None
_get_content_length(h) == IF h.st = "ok" THEN h.len ELSE NoLength

\* the indicator test of client.py:137-141
IsErrorResponse(content) == content.len < SoftLimit /\ content.kind = "err"

\* client._fetch_and_validate_audio: "content", "none" or "raise"
_fetch_and_validate_audio(g) ==
    IF g.st = "404" THEN [r |-> "none", content |-> NoFile]
    ELSE IF g.st \in {"httperr", "neterr"} THEN [r |-> "raise", content |-> NoFile]
    ELSE IF IsErrorResponse(g.body) THEN [r |-> "none", content |-> NoFile]
    ELSE [r |-> "content", content |-> g.body]

(* ------------------------ audio URL candidates ------------------------ *)

Last(s) == s[Len(s)]
Front(s) == SubSeq(s, 1, Len(s) - 1)
InSeq(x, s) == \E i \in 1..Len(s) : s[i] = x
AppendNew(s, x) == IF InSeq(x, s) THEN s ELSE Append(s, x)

RECURSIVE _deduplicate_preserve_order(_)
_deduplicate_preserve_order(urls) ==
    IF urls = <<>> THEN <<>>
    ELSE AppendNew(_deduplicate_preserve_order(Front(urls)), Last(urls))

\* _merge_url_lists(a, b)
RECURSIVE _merge_url_lists(_, _)
_merge_url_lists(a, b) ==
    IF b = <<>> THEN _deduplicate_preserve_order(a)
    ELSE AppendNew(_merge_url_lists(a, Front(b)), Last(b))

\* _collect_audio_urls: the non-empty downloadUrl / url fields, in order
RECURSIVE CollectField(_, _)
CollectField(audios, f) ==
    IF audios = <<>> THEN <<>>
    ELSE LET rest == CollectField(Front(audios), f)
             v == Last(audios)[f]
         IN IF v # "" THEN Append(rest, v) ELSE rest
_collect_audio_urls(audios) ==
    [download |-> CollectField(audios, "downloadUrl"),
     streaming |-> CollectField(audios, "url")]

\* _build_audio_url_candidates: one (kind, url, size) per URL whose HEAD
\* gave a length; heads maps a URL to its HEAD outcome
RECURSIVE Candidates(_, _, _)
Candidates(urls, kind, heads) ==
    IF urls = <<>> THEN <<>>
    ELSE LET rest == Candidates(Front(urls), kind, heads)
             size == _get_content_length(heads[Last(urls)])
         IN IF size # NoLength
            THEN Append(rest, [kind |-> kind, url |-> Last(urls), size |-> size])
            ELSE rest
_build_audio_url_candidates(download_urls, streaming_urls, heads) ==
    Candidates(download_urls, "download", heads)
        \o Candidates(streaming_urls, "streaming", heads)

\* sorted(candidates, key=size, reverse=True): stable, equal sizes keep
\* their order
RECURSIVE InsertDesc(_, _)
InsertDesc(x, t) ==
    IF t = <<>> THEN <<x>>
    ELSE IF Last(t).size >= x.size THEN Append(t, x)
    ELSE Append(InsertDesc(x, Front(t)), Last(t))
RECURSIVE SortedDesc(_)
SortedDesc(c) ==
    IF c = <<>> THEN <<>> ELSE InsertDesc(Last(c), SortedDesc(Front(c)))

RECURSIVE AppendUrls(_, _)
AppendUrls(acc, c) ==
    IF c = <<>> THEN acc
    ELSE AppendNew(AppendUrls(acc, Front(c)), Last(c).url)

RECURSIVE AppendAllNew(_, _)
AppendAllNew(acc, urls) ==
    IF urls = <<>> THEN acc
    ELSE AppendNew(AppendAllNew(acc, Front(urls)), Last(urls))

\* variant: the lengths are not looked at
_prioritize_audio_urls_unsorted(download_urls, streaming_urls, url_candidates) ==
    _merge_url_lists(download_urls, streaming_urls)

_prioritize_audio_urls(download_urls, streaming_urls, url_candidates) ==
    IF url_candidates = <<>> THEN _merge_url_lists(download_urls, streaming_urls)
    ELSE LET sorted_candidates == SortedDesc(url_candidates)
             priority_urls == AppendUrls(<<sorted_candidates[1].url>>, Tail(sorted_candidates))
         IN AppendAllNew(priority_urls, _merge_url_lists(download_urls, streaming_urls))

\* whether _extract_audio_url probes the candidates with HEAD requests
NeedsProbe(audios) ==
    LET c == _collect_audio_urls(audios)
    IN c.download # <<>> /\ c.streaming # <<>>

\* the URLs probed, in request order
ProbeOrder(audios) ==
    LET c == _collect_audio_urls(audios)
    IN _deduplicate_preserve_order(c.download) \o _deduplicate_preserve_order(c.streaming)

\* _extract_audio_url
_extract_audio_url(audios, heads) ==
    LET c == _collect_audio_urls(audios)
        download_urls == _deduplicate_preserve_order(c.download)
        streaming_urls == _deduplicate_preserve_order(c.streaming)
    IN IF download_urls = <<>> /\ streaming_urls = <<>> THEN <<>>
       ELSE IF download_urls = <<>> THEN streaming_urls
       ELSE IF streaming_urls = <<>> THEN download_urls
       ELSE _prioritize_audio_urls(download_urls, streaming_urls,
                _build_audio_url_candidates(download_urls, streaming_urls, heads))

(* ------------------------------- nodes -------------------------------- *)

Audio(d, s) == [downloadUrl |-> d, url |-> s]
\* the episode as the API may return it in different cycles: same id and
\* title (hence the same filename stem), different audio entries
NodeEmpty == [audios |-> <<Audio("", "")>>, image |-> "", image1 |-> "", doc |-> "doc1"]
NodeSingle == [audios |-> <<Audio(U_MP3, "")>>, image |-> U_IMG, image1 |-> "", doc |-> "doc1"]
NodeTwo == [audios |-> <<Audio(U_MP3, ""), Audio(U_RAW, "")>>, image |-> "", image1 |-> "", doc |-> "doc2"]
NodeBoth == [audios |-> <<Audio(U_MP3, U_M4A)>>, image |-> "", image1 |-> "", doc |-> "doc1"]
NodeCovers == [audios |-> <<Audio(U_RAW, "")>>, image |-> U_IMG, image1 |-> U_IMG1, doc |-> "doc2"]
Nodes == {NodeEmpty, NodeSingle, NodeTwo, NodeBoth}
\* the nodes of the repeated download
RerunNodes == {NodeSingle, NodeTwo, NodeBoth, NodeCovers}

(* ------------------------------- state -------------------------------- *)

VARIABLES
    files,          \* the episode's paths in the program folder -> contents
    dirExists,      \* whether the program folder exists
    remoteHead,     \* URL -> the answer the remote gives to HEAD, once asked
    remoteGet,      \* URL -> the answer the remote gives to GET, once asked
    remember,       \* the remote will answer the next cycle as it answers this one
    faults,         \* file system faults injected so far
    pc,             \* position inside _save_nodes([node])
    cycle,          \* number of cycles started
    node,           \* the node of the current (or last) cycle
    urls,           \* audio_urls, the result of _extract_audio_url
    log,            \* requests and file operations of the current cycle
    startFiles,     \* files when the current cycle started
    rerun,          \* this cycle repeats the previous one: same node, same remote
    prevAudioOk,    \* _save_audio_file returned True in the previous cycle
    h,              \* what _save_audio_file saw and did in this cycle
    audioRet,       \* how _save_audio_file ended: "none", "True", "False", "raised"
    nodeRet,        \* what _process_single_node returned: "none", "True", "False"
    result,         \* the DownloadResult of _save_nodes
    extsUsed,       \* extensions chosen by the cycles so far
    pn,             \* pool: number of nodes
    outcome,        \* pool: node index -> "ok", "fail", "raise"
    workers,        \* pool: max_workers
    ppc,            \* pool: position
    seqIdx,         \* pool: index of the sequential loop
    seq,            \* pool: success_count / error_count of the sequential loop
    task,           \* pool: node index -> state of its future
    results,        \* pool: the list built by parallel_process
    calls,          \* pool: node index -> calls of process_func, per mode
    par,            \* pool: the DownloadResult of parallel_download_nodes
    pgFn,           \* pages: the paginating function that runs
    pgSrv,          \* pages: the server: items, page capacity, honours count
    pgLimit,        \* pages: the limit argument
    pgPc,           \* pages: position
    pgOffset,       \* pages: offset of the next request
    pgNodes,        \* pages: the accumulated nodes
    pgReqs,         \* pages: the HTTP requests made, in order
    pgCache,        \* pages: the cached (query, variables) keys
    pgMeta,         \* pages: where the collection-level record came from
    pgPages         \* pages: the answers received, <<[nodes, has_next]>>

reconVars == <<files, dirExists, remoteHead, remoteGet, remember, faults, pc, cycle,
               node, urls, log, startFiles, rerun, prevAudioOk, h, audioRet,
               nodeRet, result, extsUsed>>
poolVars == <<pn, outcome, workers, ppc, seqIdx, seq, task, results, calls, par>>
pageVars == <<pgFn, pgSrv, pgLimit, pgPc, pgOffset, pgNodes, pgReqs, pgCache, pgMeta, pgPages>>
Min2(a, b) == IF a <= b THEN a ELSE b
Max2(a, b) == IF a >= b THEN a ELSE b

(* ---------------------------- response cache --------------------------- *)
(* SpecCache: up to MaxThreads threads call get, set and clear of one      *)
(* GraphQLCache and _graphql_get of the client that owns it, while the     *)
(* clock advances.  A statement inside "with self._lock" is one step.      *)

\* the threads that share the cache
MaxThreads == 2
\* the calls made in one behaviour
MaxCalls == 3
\* the cache keys (query, variables) in use
MaxKeys == 1
\* the last reading of the clock
MaxTime == 2

Threads == 1..MaxThreads
Keys == 1..MaxKeys
\* response.json(): an object, or None for the JSON value null
Objects == {"r1", "r2"}
None == "None"
NoRow == [payload |-> "none"]
GraphQLError == "GraphQLError"
NoSet == [set |-> FALSE, val |-> None, t |-> 0]

\* json.dumps(response, ...) and json.loads(row[0]): the text of a value and
\* the value of a text; None is written as null and null is read as None
Dumps(v) == <<"text", IF v = None THEN "null" ELSE v>>
Loads(p) == IF p[2] = "null" THEN None ELSE p[2]

\* self.ttl_seconds = max(0, int(ttl_seconds)) if self._enabled else 0
CacheConfigs == {[enabled |-> FALSE, ttl |-> 1], [enabled |-> TRUE, ttl |-> 0],
                 [enabled |-> TRUE, ttl |-> 1]}
ttl_seconds(cfg) == IF cfg.enabled THEN Max2(0, cfg.ttl) ELSE 0

VARIABLES
    cCfg,           \* cache: the constructor arguments
    cN,             \* cache: the number of threads
    cNow,           \* cache: time.time()
    cDb,            \* cache: the table graphql_cache, by cache key
    cThr,           \* cache: each thread's call and its position in it
    cCalls,         \* cache: the calls started
    cVer,           \* cache: the rows written so far
    cLastSet,       \* cache: per key, the last set since the last clear
    cEvictedOther   \* cache: whether an eviction deleted a row its get had not read

cacheVars == <<cCfg, cN, cNow, cDb, cThr, cCalls, cVer, cLastSet, cEvictedOther>>

IdleThread ==
    [pc |-> "idle", op |-> "none", key |-> 1, val |-> None, row |-> NoRow, ts |-> 0,
     tchk |-> 0, ret |-> None, http |-> 0, outcome |-> "none", start |-> [k \in Keys |-> NoRow]]

CacheIdle ==
    /\ cCfg = [enabled |-> FALSE, ttl |-> 0]
    /\ cN = 0
    /\ cNow = 0
    /\ cDb = [k \in Keys |-> NoRow]
    /\ cThr = [t \in Threads |-> IdleThread]
    /\ cCalls = 0
    /\ cVer = 0
    /\ cLastSet = [k \in Keys |-> NoSet]
    /\ cEvictedOther = "no"

(* ------------------------------ asset lock ------------------------------ *)
(* SpecLock: up to MaxProcs workers or processes enter                     *)
(* _locked_file_operation for one asset path.  FileLock opens (creating    *)
(* it if need be) the lock file and takes an exclusive flock on the file   *)
(* it opened, polling until the timeout.                                   *)

\* the workers and processes that use the asset
MaxProcs == 3

Procs == 1..MaxProcs
\* no lock file at lock_path; nobody holds the flock of a file
NoInode == 0
Nobody == 0

VARIABLES
    lkPath,         \* lock: the file that lock_path names, or NoInode
    lkHeld,         \* lock: per lock file ever created, who holds its flock
    lkProc,         \* lock: each caller's position and the file it opened
    lkTouched       \* lock: the callers that read or wrote the asset

lockVars == <<lkPath, lkHeld, lkProc, lkTouched>>

LockIdle ==
    /\ lkPath = NoInode
    /\ lkHeld = <<>>
    /\ lkProc = [p \in Procs |-> [pc |-> "off", fd |-> NoInode, timed_out |-> FALSE]]
    /\ lkTouched = {}

(* ---------------------------- filename stems ---------------------------- *)
(* SpecStem: _save_nodes hands the entries of one node list to             *)
(* _process_single_node, which derives the folder and the filename stem    *)
(* of each.  Strings are sequences of characters.                          *)

\* the longest title
MaxTitleLen == 3
\* the longest episode id
MaxIdLen == 3

VARIABLES
    stNodes,        \* stems: the node list
    stPaths         \* stems: per list entry, the (folder, stem) derived, once derived

stemVars == <<stNodes, stPaths>>

StemIdle ==
    /\ stNodes = <<>>
    /\ stPaths = <<>>

(* -------------------------- collection folders -------------------------- *)
(* SpecCollection: _download_collection after the listing was fetched:     *)
(* every node goes through _process_single_node, then the collection's     *)
(* own record and cover are saved.                                         *)

\* the longest listing
MaxListing == 2

VARIABLES
    clNodes,        \* collection: the listing
    clData,         \* collection: the collection-level record (raw_collection_data)
    clEditorial,    \* collection: is_editorial_collection
    clPc,           \* collection: position
    clIdx,          \* collection: the node that is processed next
    clFiles         \* collection: the files written, as (folder, kind, name, ext)

collVars == <<clNodes, clData, clEditorial, clPc, clIdx, clFiles>>

CollIdle ==
    /\ clNodes = <<>>
    /\ clData = [present |-> FALSE, id |-> "", image |-> FALSE]
    /\ clEditorial = FALSE
    /\ clPc = "off"
    /\ clIdx = 1
    /\ clFiles = {}

(* ------------------------------- resolver ------------------------------- *)
(* SpecResolver: determine_resource_type_from_id and parse_url, applied to *)
(* ids and URLs made of up to MaxChunks pieces.  Strings are sequences of  *)
(* characters.                                                             *)

\* the pieces an id is made of
MaxChunks == 3

VARIABLES
    rsKind,         \* resolver: "id" or "url"
    rsInput,        \* resolver: the argument
    rsResult        \* resolver: the ResourceInfo returned, once returned

resVars == <<rsKind, rsInput, rsResult>>

ResIdle ==
    /\ rsKind = "none"
    /\ rsInput = <<>>
    /\ rsResult = [state |-> "off"]

(***************************************************************************)
(* Quality deduplication (remove_lower_quality_files): state.  One folder  *)
(* holding one group of same-stem audio files; a dry run is followed by a  *)
(* real run on the same folder.                                            *)
(***************************************************************************)
\* extensions grouped by _process_folder_quality
AudioExtensions == {".mp3", ".mp4", ".aac", ".m4a"}
AacFamily == {".mp4", ".aac", ".m4a"}
\* _get_audio_quality returned None
NoBitrate == 0
\* the bitrates around the two thresholds of the comparison
AacThreshold == 96
Mp3Threshold == 128
Bitrates == {AacThreshold - 1, AacThreshold, Mp3Threshold, Mp3Threshold + 1}
NoCounts == [removed |-> 0, errors |-> 0]
NoBest == [has |-> FALSE, ext |-> "None", upper |-> FALSE, bitrate |-> 0]

VARIABLES
    qFolder,        \* quality: the target folder exists
    qFiles,         \* quality: the group as listed, <<[ext, upper, bitrate]>>
    qDisk,          \* quality: extensions of the files on disk
    qPc,            \* quality: "off", "dry", "real", "done"
    qDry,           \* quality: what the dry run returned
    qReal,          \* quality: what the real run returned
    qBest,          \* quality: best_file of the real run
    qSelected       \* quality: files_to_remove of the real run

qualityVars == <<qFolder, qFiles, qDisk, qPc, qDry, qReal, qBest, qSelected>>

QualityIdle ==
    /\ qFolder = FALSE
    /\ qFiles = <<>>
    /\ qDisk = {}
    /\ qPc = "off"
    /\ qDry = [success |-> FALSE, counts |-> NoCounts]
    /\ qReal = [success |-> FALSE, counts |-> NoCounts]
    /\ qBest = NoBest
    /\ qSelected = {}

(***************************************************************************)
(* Metadata write suppression (compare_json_content before                 *)
(* safe_write_json): state.  One metadata file, saved repeatedly.          *)
(***************************************************************************)
MaxSaves == 3
\* the modification time a publish date stands for, and the time before the
\* first save
PublishTime == 0
StartTime == 1

\* JSON values of a field as Python holds them
JNull == [t |-> "null", v |-> 0]
JInt(n) == [t |-> "int", v |-> n]
JFloat(n) == [t |-> "float", v |-> n]
Durations == {JNull, JInt(1), JFloat(1), JInt(2)}
\* the documents proposed for the file
MetaDocs == [duration : Durations]
NoText == [kind |-> "absent", duration |-> ""]
NoMetaFile == [text |-> NoText, mtime |-> 0, readable |-> FALSE]

VARIABLES
    mFile,          \* metadata: the JSON file on disk
    mNow,           \* metadata: the clock
    mHist           \* metadata: the saves so far

metaVars == <<mFile, mNow, mHist>>

MetaIdle ==
    /\ mFile = NoMetaFile
    /\ mNow = 0
    /\ mHist = <<>>

\* ---- _download_collection: the listing is enumerated, then downloaded ----
\* the episodes a listing holds at most
MaxListed == 3
\* the result before _download_collection returned
NoDownloadResult == [returned |-> FALSE, success |-> FALSE, error |-> FALSE]

VARIABLES
    dcEditorial,  \* is_editorial_collection
    dcSrv,        \* the listing the API serves
    dcPc,         \* "idle", "pages", "data", "save", "metadata", "done"
    dcOffset,     \* offset of the paginating function
    dcNodes,      \* nodes of the paginating function
    dcData,       \* raw_collection_data is not empty
    dcCaching,    \* the response cache is enabled (ttl_seconds > 0)
    dcCache,      \* keys the response cache holds
    dcIdx,        \* nodes _save_nodes has processed
    dcCounts,     \* success_count and error_count of _save_nodes
    dcTree,       \* folders and files of the output tree created or written
    dcLog,        \* requests and file operations, in the order they were issued
    dcResult      \* the DownloadResult returned

enumVars == <<dcEditorial, dcSrv, dcPc, dcOffset, dcNodes, dcData, dcCaching, dcCache, dcIdx,
              dcCounts, dcTree, dcLog, dcResult>>

EnumIdle ==
    /\ dcEditorial = FALSE
    /\ dcSrv = [n |-> 0, cap |-> 0, honours |-> FALSE, free |-> FALSE]
    /\ dcPc = "idle"
    /\ dcOffset = 0
    /\ dcNodes = <<>>
    /\ dcData = FALSE
    /\ dcCaching = FALSE
    /\ dcCache = {}
    /\ dcIdx = 0
    /\ dcCounts = [success_count |-> 0, error_count |-> 0]
    /\ dcTree = {}
    /\ dcLog = <<>>
    /\ dcResult = NoDownloadResult

\* the groups added after the resolver, idle
LaterIdle == QualityIdle /\ MetaIdle /\ EnumIdle

extVars == <<pageVars, cacheVars, lockVars, stemVars, collVars, resVars, qualityVars, metaVars, enumVars>>
nonPageVars == <<reconVars, poolVars, cacheVars, lockVars, stemVars, collVars, resVars, qualityVars, metaVars, enumVars>>
nonCacheVars == <<reconVars, poolVars, pageVars, lockVars, stemVars, collVars, resVars, qualityVars, metaVars, enumVars>>
nonLockVars == <<reconVars, poolVars, pageVars, cacheVars, stemVars, collVars, resVars, qualityVars, metaVars, enumVars>>
nonStemVars == <<reconVars, poolVars, pageVars, cacheVars, lockVars, collVars, resVars, qualityVars, metaVars, enumVars>>
nonCollVars == <<reconVars, poolVars, pageVars, cacheVars, lockVars, stemVars, resVars, qualityVars, metaVars, enumVars>>
nonResVars == <<reconVars, poolVars, pageVars, cacheVars, lockVars, stemVars, collVars, qualityVars, metaVars, enumVars>>
nonQualityVars == <<reconVars, poolVars, pageVars, cacheVars, lockVars, stemVars, collVars, resVars, metaVars, enumVars>>
nonMetaVars == <<reconVars, poolVars, pageVars, cacheVars, lockVars, stemVars, collVars, resVars, qualityVars, enumVars>>
nonEnumVars == <<reconVars, poolVars, pageVars, cacheVars, lockVars, stemVars, collVars, resVars, qualityVars, metaVars>>
vars == <<reconVars, poolVars, extVars>>

NoResult == [success |-> TRUE, success_count |-> 0, error_count |-> 0]
H0 == [exists0 |-> FALSE, head |-> Unknown, size0 |-> -1, backup |-> "none",
       g1 |-> Unknown, dl |-> "none", restore |-> "none"]
Ev(op, url) == [op |-> op, url |-> url]

ReconInit ==
    /\ files = EmptyFs
    /\ dirExists = FALSE
    /\ remoteHead = [u \in URLs |-> Unknown]
    /\ remoteGet = [u \in URLs |-> Unknown]
    /\ remember = FALSE
    /\ faults = 0
    /\ pc = "idle"
    /\ cycle = 0
    /\ node = NodeEmpty
    /\ urls = <<>>
    /\ log = <<>>
    /\ startFiles = EmptyFs
    /\ rerun = FALSE
    /\ prevAudioOk = FALSE
    /\ h = H0
    /\ audioRet = "none"
    /\ nodeRet = "none"
    /\ result = NoResult
    /\ extsUsed = {}

PoolIdle ==
    /\ pn = 0
    /\ outcome = <<>>
    /\ workers = 1
    /\ ppc = "off"
    /\ seqIdx = 0
    /\ seq = NoResult
    /\ task = <<>>
    /\ results = <<>>
    /\ calls = <<>>
    /\ par = NoResult

PagesIdle ==
    /\ pgFn = "none"
    /\ pgSrv = [n |-> 0, cap |-> 0, honours |-> TRUE, free |-> FALSE]
    /\ pgLimit = 0
    /\ pgPc = "off"
    /\ pgOffset = 0
    /\ pgNodes = <<>>
    /\ pgReqs = <<>>
    /\ pgCache = {}
    /\ pgMeta = "none"
    /\ pgPages = <<>>

ExtIdle == PagesIdle /\ CacheIdle /\ LockIdle /\ StemIdle /\ CollIdle /\ ResIdle /\ LaterIdle

Init == ReconInit /\ PoolIdle /\ ExtIdle

\* the file system faults the environment may still inject: a lock that
\* times out, a failing makedirs, open, write, rename or remove
OkChoices == IF faults < MaxFaults THEN BOOLEAN ELSE {TRUE}
WriteChoices == IF faults < MaxFaults THEN WriteOutcomes ELSE {"ok"}
Fault(failed) == IF failed THEN 1 ELSE 0
\* the answers of the remote are kept only when the download will be repeated
Remembered(memo, answers) == IF remember THEN answers ELSE memo
\* the answers the remote may give: the one it gave before, or any if it was
\* not asked yet
HeadChoices(u) == IF remoteHead[u] = Unknown THEN HeadOutcomes ELSE {remoteHead[u]}
GetChoices(u) == IF remoteGet[u] = Unknown THEN GetOutcomes ELSE {remoteGet[u]}
ImageGetChoices(u) == IF remoteGet[u] = Unknown THEN ImageGetOutcomes ELSE {remoteGet[u]}

(* ------------------------------ actions ------------------------------- *)

\* _save_nodes([n], folder) is entered: one node, hence the sequential
\* loop.  The remote may answer anything in this cycle; r: whether it will
\* answer the same way when the download is repeated.
BeginCycle(n, r) ==
    /\ pc \in {"idle", "done"}
    /\ ~remember
    /\ cycle < MaxCycles
    /\ cycle' = cycle + 1
    /\ node' = n
    /\ remember' = r
    /\ rerun' = FALSE
    /\ prevAudioOk' = FALSE
    /\ remoteHead' = [u \in URLs |-> Unknown]
    /\ remoteGet' = [u \in URLs |-> Unknown]
    /\ startFiles' = files
    /\ log' = <<>>
    /\ urls' = <<>>
    /\ h' = H0
    /\ audioRet' = "none"
    /\ nodeRet' = "none"
    /\ result' = NoResult
    /\ pc' = "extract"
    /\ UNCHANGED <<files, dirExists, extsUsed, faults>>
    /\ UNCHANGED <<poolVars, extVars>>

\* the same download is run a second time: the API returns the same node and
\* the remote answers every request as it did in the previous cycle
RepeatCycle ==
    /\ pc = "done"
    /\ remember
    /\ ~rerun
    /\ cycle' = cycle + 1
    /\ rerun' = TRUE
    /\ prevAudioOk' = (audioRet = "True")
    /\ startFiles' = files
    /\ log' = <<>>
    /\ urls' = <<>>
    /\ h' = H0
    /\ audioRet' = "none"
    /\ nodeRet' = "none"
    /\ result' = NoResult
    /\ pc' = "extract"
    /\ UNCHANGED <<files, dirExists, node, remoteHead, remoteGet, remember, extsUsed, faults>>
    /\ UNCHANGED <<poolVars, extVars>>

StartCycle(n) == BeginCycle(n, FALSE)
StartRemembered(n) == cycle = 0 /\ BeginCycle(n, TRUE)

\* _process_single_node, lines 603-617: the audio candidates
ExtractAudioUrl ==
    /\ pc = "extract"
    /\ LET order == ProbeOrder(node.audios)
           S == IF NeedsProbe(node.audios) THEN {order[i] : i \in 1..Len(order)} ELSE {}
       IN \E hs \in [S -> HeadOutcomes] :
            /\ \A u \in S : hs[u] \in HeadChoices(u)
            /\ remoteHead' = Remembered(remoteHead,
                                [u \in URLs |-> IF u \in S THEN hs[u] ELSE remoteHead[u]])
            /\ urls' = _extract_audio_url(node.audios, hs)
            /\ log' = IF S = {} THEN log
                      ELSE log \o [i \in 1..Len(order) |-> Ev("HEAD", order[i])]
    /\ IF urls' = <<>>
       THEN nodeRet' = "False" /\ pc' = "ret"
       ELSE nodeRet' = nodeRet /\ pc' = "mkdir"
    /\ UNCHANGED <<files, dirExists, remoteGet, faults, cycle, node, startFiles,
                   rerun, prevAudioOk, h, audioRet, result, extsUsed>>
    /\ UNCHANGED <<remember, poolVars, extVars>>

\* _process_single_node, lines 619-630: ensure_directory_exists
EnsureDirectory ==
    /\ pc = "mkdir"
    /\ \E ok \in OkChoices :
         IF ok \/ dirExists
         THEN dirExists' = TRUE /\ nodeRet' = nodeRet /\ pc' = "image"
              /\ UNCHANGED faults
         ELSE dirExists' = dirExists /\ nodeRet' = "False" /\ pc' = "ret"
              /\ faults' = faults + 1
    /\ UNCHANGED <<files, remoteHead, remoteGet, cycle, node, urls, log,
                   startFiles, rerun, prevAudioOk, h, audioRet, result, extsUsed>>
    /\ UNCHANGED <<remember, poolVars, extVars>>

\* _save_images_and_metadata, lines 777-795: one cover image.  The lock of
\* _locked_file_operation may time out (FileOperationError, which only
\* _process_single_node catches); the GET is not status-checked, so the body
\* of any response is written; DownloadError is caught and logged.
SaveImage(at, url, path, next) ==
    /\ pc = at
    /\ \/ /\ url = ""
          /\ pc' = next
          /\ UNCHANGED <<files, remoteGet, log, nodeRet, faults>>
       \/ /\ url # ""
          /\ \E lockOk \in OkChoices :
               IF ~lockOk
               THEN /\ nodeRet' = "False"
                    /\ pc' = "ret"
                    /\ faults' = faults + 1
                    /\ UNCHANGED <<files, remoteGet, log>>
               ELSE IF Exists(files, path)
               THEN /\ pc' = next
                    /\ UNCHANGED <<files, remoteGet, log, nodeRet, faults>>
               ELSE \E g \in ImageGetChoices(url) :
                    /\ remoteGet' = Remembered(remoteGet, [remoteGet EXCEPT ![url] = g])
                    /\ log' = Append(log, Ev("IMGGET", url))
                    /\ pc' = next
                    /\ UNCHANGED nodeRet
                    /\ IF g.st = "neterr"
                       THEN UNCHANGED <<files, faults>>
                       ELSE \E w \in WriteChoices :
                              /\ files' = WriteFile(files, path, g.body, w)
                              /\ faults' = faults + Fault(w # "ok")
    /\ UNCHANGED <<dirExists, remoteHead, cycle, node, urls, startFiles,
                   rerun, prevAudioOk, h, audioRet, result, extsUsed>>
    /\ UNCHANGED <<remember, poolVars, extVars>>

SaveWideImage == SaveImage("image", node.image, P_IMG, "image1")
SaveSquareImage == SaveImage("image1", node.image1, P_IMG1, "meta")

\* _save_images_and_metadata, lines 797-819: the metadata JSON
SaveMetadata ==
    /\ pc = "meta"
    /\ IF compare_json_content(files, P_JSON, node.doc)
       THEN UNCHANGED <<files, log, faults>>
       ELSE \E w \in WriteChoices :
              /\ files' = WriteFile(files, P_JSON, Doc(node.doc), w)
              /\ log' = Append(log, Ev("JSONWRITE", w))
              /\ faults' = faults + Fault(w # "ok")
    /\ pc' = "audio"
    /\ UNCHANGED <<dirExists, remoteHead, remoteGet, cycle, node, urls,
                   startFiles, rerun, prevAudioOk, h, audioRet, nodeRet, result, extsUsed>>
    /\ UNCHANGED <<remember, poolVars, extVars>>

\* _save_audio_file, lines 842-848
preferred_url == urls[1]
\* variant: the fallback is the URL of lowest priority
fallback_url_last == urls[Len(urls)]
fallback_url == IF Len(urls) > 1 THEN urls[2] ELSE urls[1]
\* variant: the extension is taken from the fallback URL
audio_file_path_fallback(audio_urls) ==
    Live(_get_audio_file_extension(IF Len(audio_urls) > 1 THEN audio_urls[2] ELSE audio_urls[1]))
audio_file_path(audio_urls) == Live(_get_audio_file_extension(audio_urls[1]))

\* _save_audio_file, lines 855-893: what to do with an existing file
\* variant: an equal length is downloaded again
ExistingFileDecision_ge(is_available, expected_length, current_size) ==
    IF ~is_available THEN "keep"
    ELSE IF expected_length # NoLength /\ expected_length # 0
    THEN IF current_size = expected_length THEN "backup"
         ELSE IF expected_length > current_size THEN "backup"
         ELSE "keep"
    ELSE "backup"
\* variant: is_available is ignored
ExistingFileDecision_404(is_available, expected_length, current_size) ==
    IF expected_length # NoLength /\ expected_length # 0
    THEN IF current_size = expected_length THEN "keep"
         ELSE IF expected_length > current_size THEN "backup"
         ELSE "keep"
    ELSE "backup"
ExistingFileDecision(is_available, expected_length, current_size) ==
    IF ~is_available THEN "keep"
    ELSE IF expected_length # NoLength /\ expected_length # 0
    THEN IF current_size = expected_length THEN "keep"
         ELSE IF expected_length > current_size THEN "backup"
         ELSE "keep"
    ELSE "backup"

\* _save_audio_file, lines 853-893: lock, existence check, HEAD, backup
SaveAudioCheck ==
    /\ pc = "audio"
    /\ extsUsed' = extsUsed \cup {_get_audio_file_extension(preferred_url)}
    /\ LET path == audio_file_path(urls)
       IN \E lockOk \in OkChoices :
            IF ~lockOk
            THEN /\ audioRet' = "raised"
                 /\ nodeRet' = "False"
                 /\ pc' = "ret"
                 /\ faults' = faults + 1
                 /\ UNCHANGED <<files, remoteHead, log, h>>
            ELSE IF ~Exists(files, path)
            THEN /\ pc' = "audio_get"
                 /\ UNCHANGED <<files, remoteHead, log, h, audioRet, nodeRet, faults>>
            ELSE \E hd \in HeadChoices(preferred_url) :
                 LET av == _check_file_availability(hd)
                     current_size == GetSize(files, path)
                     d == ExistingFileDecision(av.avail, av.len, current_size)
                     h1 == [h EXCEPT !.exists0 = TRUE, !.head = hd, !.size0 = current_size]
                 IN /\ remoteHead' = Remembered(remoteHead, [remoteHead EXCEPT ![preferred_url] = hd])
                    /\ IF d = "keep"
                       THEN /\ log' = Append(log, Ev("HEAD", preferred_url))
                            /\ h' = h1
                            /\ audioRet' = "True"
                            /\ nodeRet' = "True"
                            /\ pc' = "ret"
                            /\ UNCHANGED <<files, faults>>
                       ELSE \E renameOk \in OkChoices :
                            LET b == backup_file(files, path, renameOk)
                            IN /\ files' = b.fs
                               /\ faults' = faults + Fault(~renameOk)
                               /\ IF b.ok
                                  THEN /\ log' = log \o <<Ev("HEAD", preferred_url), Ev("BACKUP", "")>>
                                       /\ h' = [h1 EXCEPT !.backup = "ok"]
                                       /\ pc' = "audio_get"
                                       /\ UNCHANGED <<audioRet, nodeRet>>
                                  ELSE /\ log' = Append(log, Ev("HEAD", preferred_url))
                                       /\ h' = [h1 EXCEPT !.backup = "fail"]
                                       /\ audioRet' = "False"
                                       /\ nodeRet' = "False"
                                       /\ pc' = "ret"
    /\ UNCHANGED <<dirExists, remoteGet, cycle, node, urls, startFiles,
                   rerun, prevAudioOk, result>>
    /\ UNCHANGED <<remember, poolVars, extVars>>

\* client._download_audio_to_file as called at line 896: GET the preferred
\* URL, GET the fallback if the first gave nothing and it is another URL,
\* write the content
DownloadAudioToFile ==
    /\ pc = "audio_get"
    /\ LET path == audio_file_path(urls)
       IN \E g1 \in GetChoices(preferred_url) :
            LET r1 == _fetch_and_validate_audio(g1)
                useFallback == r1.r = "none" /\ fallback_url # preferred_url
            IN \E g2 \in IF useFallback THEN GetChoices(fallback_url) ELSE {g1} :
                 LET r2 == _fetch_and_validate_audio(g2)
                     content == IF r1.r = "content" THEN r1.content
                                ELSE IF useFallback /\ r2.r = "content" THEN r2.content
                                ELSE NoFile
                     h1 == [h EXCEPT !.g1 = g1]
                 IN /\ remoteGet' = Remembered(remoteGet,
                                       IF useFallback
                                       THEN [remoteGet EXCEPT ![preferred_url] = g1, ![fallback_url] = g2]
                                       ELSE [remoteGet EXCEPT ![preferred_url] = g1])
                    /\ log' = IF useFallback
                              THEN log \o <<Ev("GET", preferred_url), Ev("GET", fallback_url)>>
                              ELSE Append(log, Ev("GET", preferred_url))
                    /\ IF r1.r = "raise"
                       THEN /\ h' = [h1 EXCEPT !.dl = "raised"]
                            /\ audioRet' = "raised"
                            /\ nodeRet' = "False"
                            /\ pc' = "ret"
                            /\ UNCHANGED <<files, faults>>
                       ELSE IF content = NoFile
                       THEN /\ h' = [h1 EXCEPT !.dl = "false"]
                            /\ pc' = "audio_cleanup"
                            /\ UNCHANGED <<files, audioRet, nodeRet, faults>>
                       ELSE \E w \in WriteChoices :
                            /\ files' = WriteFile(files, path, content, w)
                            /\ faults' = faults + Fault(w # "ok")
                            /\ IF w = "ok"
                               THEN /\ h' = [h1 EXCEPT !.dl = "ok"]
                                    /\ audioRet' = "True"
                                    /\ nodeRet' = "True"
                                    /\ pc' = "ret"
                               ELSE /\ h' = [h1 EXCEPT !.dl = "false"]
                                    /\ pc' = "audio_cleanup"
                                    /\ UNCHANGED <<audioRet, nodeRet>>
    /\ UNCHANGED <<dirExists, remoteHead, cycle, node, urls, startFiles,
                   rerun, prevAudioOk, result, extsUsed>>
    /\ UNCHANGED <<remember, poolVars, extVars>>

\* _save_audio_file, lines 903-918: remove the partial file, restore the backup
AudioCleanup ==
    /\ pc = "audio_cleanup"
    /\ LET path == audio_file_path(urls)
           backup_path == BackupPath(path)
       IN \E removeOk \in IF Exists(files, path) THEN OkChoices ELSE {TRUE} :
            LET fs1 == IF Exists(files, path) /\ removeOk
                       THEN [files EXCEPT ![path] = NoFile] ELSE files
            IN IF Exists(fs1, backup_path)
               THEN \E renameOk \in IF removeOk THEN OkChoices ELSE BOOLEAN :
                    LET r == restore_backup(fs1, backup_path, path, renameOk)
                    IN /\ faults + Fault(~removeOk) + Fault(~renameOk) <= MaxFaults
                       /\ faults' = faults + Fault(~removeOk) + Fault(~renameOk)
                       /\ files' = r.fs
                       /\ h' = [h EXCEPT !.restore = IF r.ok THEN "ok" ELSE "fail"]
                       /\ audioRet' = IF r.ok THEN "True" ELSE "False"
                       /\ nodeRet' = IF r.ok THEN "True" ELSE "False"
                       /\ log' = IF r.ok THEN Append(log, Ev("RESTORE", "")) ELSE log
               ELSE /\ files' = fs1
                    /\ faults' = faults + Fault(~removeOk)
                    /\ audioRet' = "False"
                    /\ nodeRet' = "False"
                    /\ UNCHANGED <<h, log>>
    /\ pc' = "ret"
    /\ UNCHANGED <<dirExists, remoteHead, remoteGet, cycle, node, urls,
                   startFiles, rerun, prevAudioOk, result, extsUsed>>
    /\ UNCHANGED <<remember, poolVars, extVars>>

\* DownloadResult of _save_nodes (lines 586-588) and of
\* parallel_download_nodes (lines 118-120)
DownloadResultOf(success_count, error_count) ==
    [success |-> IF error_count > 0 THEN success_count > 0 ELSE TRUE,
     success_count |-> success_count, error_count |-> error_count]

\* one turn of the sequential loop of _save_nodes, lines 576-584;
\* r: "ok" (True), "fail" (False) or "raise"
SeqCount(c, r) ==
    IF r = "ok" THEN [c EXCEPT !.success_count = @ + 1]
    ELSE [c EXCEPT !.error_count = @ + 1]

\* _save_nodes, lines 572-588, for the one node of the list
SaveNodesReturn ==
    /\ pc = "ret"
    /\ LET c == SeqCount(NoResult, IF nodeRet = "True" THEN "ok" ELSE "fail")
       IN result' = DownloadResultOf(c.success_count, c.error_count)
    /\ pc' = "done"
    /\ UNCHANGED <<files, dirExists, remoteHead, remoteGet, cycle, node,
                   urls, log, startFiles, rerun, prevAudioOk, h, audioRet, nodeRet,
                   extsUsed, faults>>
    /\ UNCHANGED <<remember, poolVars, extVars>>

Next ==
    \/ \E n \in Nodes : StartCycle(n)
    \/ ExtractAudioUrl
    \/ EnsureDirectory
    \/ SaveWideImage
    \/ SaveSquareImage
    \/ SaveMetadata
    \/ SaveAudioCheck
    \/ DownloadAudioToFile
    \/ AudioCleanup
    \/ SaveNodesReturn

Spec == Init /\ [][Next]_vars

\* the same download run twice against an unchanged remote
NextRerun ==
    \/ \E n \in RerunNodes : StartRemembered(n)
    \/ RepeatCycle
    \/ ExtractAudioUrl
    \/ EnsureDirectory
    \/ SaveWideImage
    \/ SaveSquareImage
    \/ SaveMetadata
    \/ SaveAudioCheck
    \/ DownloadAudioToFile
    \/ AudioCleanup
    \/ SaveNodesReturn

SpecRerun == Init /\ [][NextRerun]_vars

(* --------------------- aggregation of node outcomes -------------------- *)

\* what process_func does for a node: returns True, returns False, raises
Outcomes == {"ok", "fail", "raise"}

\* parallel._safe_process_item: (success, result, exception)
_safe_process_item(o) ==
    IF o = "raise" THEN [success |-> FALSE, result |-> "None"]
    ELSE [success |-> TRUE, result |-> IF o = "ok" THEN "True" ELSE "False"]

\* parallel_process, lines 47-55: one completed future joins the results
\* variant: a failed item is not recorded
CollectResult_drop(rs, t) == IF t.success THEN Append(rs, t) ELSE rs
CollectResult(rs, t) == Append(rs, t)

\* parallel_download_nodes, line 115
RECURSIVE CountSuccess(_)
CountSuccess(rs) ==
    IF rs = <<>> THEN 0
    ELSE CountSuccess(Front(rs)) + (IF Last(rs).success THEN 1 ELSE 0)

\* parallel_download_nodes, lines 113-120
parallel_download_nodes(rs) ==
    LET success_count == CountSuccess(rs)
        error_count == Len(rs) - success_count
    IN DownloadResultOf(success_count, error_count)

\* a node list, what processing each node does, and a pool size; the list is
\* aggregated by the sequential loop first and by the worker pool afterwards
PoolInit ==
    /\ pn \in 1..MaxNodes
    /\ outcome \in [1..pn -> Outcomes]
    /\ workers \in 1..MaxWorkers
    /\ ppc = "seq"
    /\ seqIdx = 0
    /\ seq = NoResult
    /\ task = [i \in 1..pn |-> "new"]
    /\ results = <<>>
    /\ calls = [seq |-> [i \in 1..pn |-> 0], par |-> [i \in 1..pn |-> 0]]
    /\ par = NoResult

Running == {i \in 1..pn : task[i] = "running"}
Queued == {i \in 1..pn : task[i] = "queued"}

\* _save_nodes, lines 576-584: one turn of the sequential loop
SeqStep ==
    /\ ppc = "seq"
    /\ seqIdx < pn
    /\ seqIdx' = seqIdx + 1
    /\ calls' = [calls EXCEPT !.seq[seqIdx + 1] = @ + 1]
    /\ seq' = SeqCount(seq, outcome[seqIdx + 1])
    /\ UNCHANGED <<pn, outcome, workers, ppc, task, results, par>>
    /\ UNCHANGED <<reconVars, extVars>>

\* _save_nodes, lines 586-588
SeqReturn ==
    /\ ppc = "seq"
    /\ seqIdx = pn
    /\ seq' = DownloadResultOf(seq.success_count, seq.error_count)
    /\ ppc' = "submit"
    /\ UNCHANGED <<pn, outcome, workers, seqIdx, task, results, calls, par>>
    /\ UNCHANGED <<reconVars, extVars>>

\* parallel_process, line 41: the next item is submitted to the executor
SubmitTask ==
    /\ ppc = "submit"
    /\ \E i \in 1..pn :
         /\ task[i] = "new"
         /\ \A j \in 1..(i - 1) : task[j] # "new"
         /\ task' = [task EXCEPT ![i] = "queued"]
         /\ ppc' = IF i = pn THEN "collect" ELSE "submit"
    /\ UNCHANGED <<pn, outcome, workers, seqIdx, seq, results, calls, par>>
    /\ UNCHANGED <<reconVars, extVars>>

\* ThreadPoolExecutor: an idle worker takes the oldest queued work item
WorkerStart ==
    /\ ppc \in {"submit", "collect"}
    /\ Cardinality(Running) < workers
    /\ \E i \in Queued :
         /\ \A j \in Queued : i <= j
         /\ task' = [task EXCEPT ![i] = "running"]
    /\ UNCHANGED <<pn, outcome, workers, ppc, seqIdx, seq, results, calls, par>>
    /\ UNCHANGED <<reconVars, extVars>>

\* _safe_process_item runs process_func for the item and the future completes
WorkerFinish(i) ==
    /\ ppc \in {"submit", "collect"}
    /\ task[i] = "running"
    /\ calls' = [calls EXCEPT !.par[i] = @ + 1]
    /\ task' = [task EXCEPT ![i] = "finished"]
    /\ UNCHANGED <<pn, outcome, workers, ppc, seqIdx, seq, results, par>>
    /\ UNCHANGED <<reconVars, extVars>>

\* parallel_process, lines 44-55: as_completed yields a completed future
Collect(i) ==
    /\ ppc = "collect"
    /\ task[i] = "finished"
    /\ results' = CollectResult(results, _safe_process_item(outcome[i]))
    /\ task' = [task EXCEPT ![i] = "collected"]
    /\ UNCHANGED <<pn, outcome, workers, ppc, seqIdx, seq, calls, par>>
    /\ UNCHANGED <<reconVars, extVars>>

\* parallel_download_nodes, lines 113-120
ParReturn ==
    /\ ppc = "collect"
    /\ \A i \in 1..pn : task[i] = "collected"
    /\ par' = parallel_download_nodes(results)
    /\ ppc' = "done"
    /\ UNCHANGED <<pn, outcome, workers, seqIdx, seq, task, results, calls>>
    /\ UNCHANGED <<reconVars, extVars>>

NextPool ==
    \/ SeqStep
    \/ SeqReturn
    \/ SubmitTask
    \/ WorkerStart
    \/ \E i \in 1..pn : WorkerFinish(i)
    \/ \E i \in 1..pn : Collect(i)
    \/ ParReturn

InitPool == ReconInit /\ PoolInit /\ ExtIdle
SpecPool == InitPool /\ [][NextPool]_vars

(* ------------------------------ properties ----------------------------- *)

\* the audio file of the current cycle, defined once audio_urls is not empty
CurPath == audio_file_path(urls)
CurBackup == BackupPath(CurPath)
\* _process_single_node has returned
Returned == pc \in {"ret", "done"}
NoOp(op) == \A i \in 1..Len(log) : log[i].op # op
IsAudioRequest(e) == e.op \in {"HEAD", "GET"}
AudioRequests == SelectSeq(log, IsAudioRequest)
BackupBeforeGet ==
    \A i \in 1..Len(log) :
        log[i].op = "GET" => \E j \in 1..(i - 1) : log[j].op = "BACKUP"
ImagePath(url) == IF url = U_IMG THEN P_IMG ELSE P_IMG1
LiveExts == {e \in AudioExts : Exists(files, Live(e))}
BakExts == {e \in AudioExts : Exists(files, Bak(e))}
\* the HEAD of _save_audio_file reported a larger / an equal / a smaller length
HeadLarger == h.exists0 /\ h.head.st = "ok" /\ h.head.len > h.size0
HeadEqual == h.exists0 /\ h.head.st = "ok" /\ h.head.len = h.size0
HeadSmaller == h.exists0 /\ h.head.st = "ok" /\ h.head.len < h.size0
AudioUntouched ==
    /\ NoOp("GET")
    /\ NoOp("BACKUP")
    /\ files[CurPath] = startFiles[CurPath]
    /\ files[CurBackup] = startFiles[CurBackup]

\* C1: when the remote is larger than the existing file, the file is renamed
\* to .bak before any GET, and whenever the download then fails (404, error
\* body, other HTTP error, network error, write error) and the restoring
\* rename does not fail, the original bytes are back under the original name
\* and no .bak remains.
C1_RestoreOnAnyFailure ==
    (Returned /\ HeadLarger /\ h.dl \in {"false", "raised"} /\ h.restore # "fail")
        => /\ BackupBeforeGet
           /\ files[CurPath] = startFiles[CurPath]
           /\ files[CurBackup] = NoFile

\* C2: an audio file that exists when the cycle starts is never lost: its
\* bytes are under the live name or under .bak at every moment of the cycle
\* and when _save_audio_file has ended; a GET is issued only after the backup
\* rename succeeded; a failed backup rename ends with False and without a GET.
C2_ExistingAudioNeverLost ==
    (urls # <<>> /\ Exists(startFiles, CurPath))
        => /\ files[CurPath] = startFiles[CurPath]
              \/ files[CurBackup] = startFiles[CurPath]
           /\ BackupBeforeGet
           /\ h.backup = "fail" => (NoOp("GET") /\ audioRet = "False" /\ Returned)
           /\ pc = "done" /\ h.backup = "fail" => ~result.success
C2_Witness ==
    /\ pc = "ret"
    /\ h.backup = "ok"
    /\ h.restore = "fail"
    /\ files[CurPath] = NoFile
    /\ files[CurBackup] = startFiles[CurPath]

\* C3 as stated: a HEAD content-length equal to the size of the existing
\* file means no GET, no backup and unchanged bytes.
C3_SkipOnMatch == (Returned /\ HeadEqual) => AudioUntouched
\* C3: a HEAD content-length that is positive and equal to the size of the
\* existing file means no GET, no backup, unchanged bytes and a True result.
C3_SkipOnPositiveMatch ==
    (Returned /\ HeadEqual /\ h.head.len > 0)
        => /\ AudioUntouched
           /\ audioRet = "True"
           /\ ~NeedsProbe(node.audios) => AudioRequests = <<Ev("HEAD", preferred_url)>>
C3_Witness == pc = "ret" /\ HeadEqual /\ h.size0 > 0 /\ ~NeedsProbe(node.audios)

\* C4: single-class URLs, an existing file of size s, a HEAD content-length
\* n > s and a successful GET give exactly the requests HEAD, GET; afterwards
\* .bak holds the original bytes and the live file the downloaded ones.
C4_ReplaceStaleSmaller ==
    (Returned /\ ~NeedsProbe(node.audios) /\ HeadLarger /\ h.dl = "ok"
       /\ _fetch_and_validate_audio(h.g1).r = "content")
        => /\ AudioRequests = <<Ev("HEAD", preferred_url), Ev("GET", preferred_url)>>
           /\ files[CurBackup] = startFiles[CurPath]
           /\ files[CurPath] = h.g1.body
           /\ NoOp("RESTORE")
           /\ audioRet = "True"
C4_Witness ==
    /\ pc = "done"
    /\ ~NeedsProbe(node.audios)
    /\ HeadLarger
    /\ h.dl = "ok"
    /\ files[CurBackup] = startFiles[CurPath]
    /\ files[CurPath] # startFiles[CurPath]
    /\ result.success_count = 1

\* C5 as stated: a HEAD that reports 404 or a content-length smaller than
\* the local size leaves the existing file untouched and reports success.
C5_KeepOn404OrSmaller ==
    (Returned /\ h.exists0 /\ (h.head.st = "404" \/ HeadSmaller))
        => (AudioUntouched /\ audioRet = "True")
\* C5: a HEAD that reports 404 or a positive content-length smaller than the
\* local size leaves the existing file untouched (no GET, no .bak, same
\* bytes) and the operation reports success.
C5_KeepOn404OrPositiveSmaller ==
    (Returned /\ h.exists0 /\ (h.head.st = "404" \/ (HeadSmaller /\ h.head.len > 0)))
        => /\ AudioUntouched
           /\ audioRet = "True"
           /\ nodeRet = "True"
           /\ pc = "done" => (result.success /\ result.error_count = 0)
C5_Witness == pc = "done" /\ h.exists0 /\ h.head.st = "404" /\ result.success_count = 1

\* C6 as stated: after completed cycles the stem has at most one live audio
\* file and at most one .bak, also when the extension changed between cycles.
C6_OneLiveOneBak ==
    pc = "done" => (Cardinality(LiveExts) <= 1 /\ Cardinality(BakExts) <= 1)
\* C6: live audio files and backups exist only at extensions some cycle
\* chose from its preferred URL, hence at most one live file and one .bak as
\* long as every cycle chose the same extension.
C6_OnePerChosenExtension ==
    /\ LiveExts \subseteq extsUsed
    /\ BakExts \subseteq extsUsed
    /\ Cardinality(extsUsed) <= 1
         => (Cardinality(LiveExts) <= 1 /\ Cardinality(BakExts) <= 1)
C6_Witness ==
    /\ pc = "done"
    /\ Cardinality(extsUsed) = 2
    /\ Cardinality(LiveExts) = 2

\* what idempotence promises for the second run
SecondRunQuiet ==
    /\ NoOp("GET")
    /\ \A i \in 1..Len(log) :
         log[i].op = "IMGGET" => ~Exists(startFiles, ImagePath(log[i].url))
    /\ startFiles[P_JSON] = Doc(node.doc) => NoOp("JSONWRITE")
    /\ \A e \in AudioExts :
         /\ files[Live(e)] = startFiles[Live(e)]
         /\ files[Bak(e)] = startFiles[Bak(e)]
    /\ \A p \in {P_IMG, P_IMG1} : Exists(startFiles, p) => files[p] = startFiles[p]
    /\ startFiles[P_JSON] = Doc(node.doc) => files[P_JSON] = startFiles[P_JSON]

\* C7 as stated: the second run of the same download against an unchanged
\* remote issues no GET for what the first run completed, creates no .bak
\* and leaves every file as it was.
C7_Idempotent == (rerun /\ pc = "done" /\ prevAudioOk) => SecondRunQuiet
\* C7: the second run is quiet when its HEAD on the preferred URL reports
\* 404 or a positive content-length not larger than the stored file.
C7_IdempotentWhenLengthKnown ==
    (rerun /\ pc = "done" /\ prevAudioOk /\ h.exists0
       /\ (h.head.st = "404" \/ (h.head.st = "ok" /\ h.head.len > 0 /\ h.head.len <= h.size0)))
        => SecondRunQuiet
C7_Witness ==
    /\ rerun
    /\ pc = "done"
    /\ prevAudioOk
    /\ HeadEqual
    /\ h.head.len > 0
    /\ Exists(files, P_IMG)
    /\ files[P_JSON] = Doc(node.doc)
    /\ log = <<Ev("HEAD", preferred_url)>>

\* C8: for the same node list and outcomes the worker pool returns the same
\* success count, error count and success flag as the sequential loop, so a
\* node that reports failure is an error in both.
C8_PoolAgreesWithLoop ==
    ppc = "done" => par = seq

\* C9: in both modes every node is processed exactly once and contributes
\* one outcome; the counts add up to the number of nodes and depend only on
\* the nodes' outcomes, not on the order in which the workers complete.
C9_OneOutcomePerNode ==
    /\ ppc # "off" =>
         \A i \in 1..pn : calls.seq[i] <= 1 /\ calls.par[i] <= 1
    /\ ppc \in {"submit", "collect", "done"} =>
         /\ \A i \in 1..pn : calls.seq[i] = 1
         /\ seq.success_count + seq.error_count = pn
         /\ seq.success_count = Cardinality({i \in 1..pn : outcome[i] = "ok"})
    /\ ppc = "done" =>
         /\ \A i \in 1..pn : calls.par[i] = 1
         /\ Len(results) = pn
         /\ par.success_count + par.error_count = pn
         /\ par.success_count = Cardinality({i \in 1..pn : outcome[i] # "raise"})
C9_Witness ==
    /\ ppc = "done"
    /\ pn >= 3
    /\ workers >= 2
    /\ outcome[1] = "ok"
    /\ outcome[2] = "raise"
    /\ outcome[3] = "fail"
    /\ ~results[1].success
    /\ par.error_count = 1

\* C10: a node without any audio URL is skipped: no folder, image, metadata
\* or audio file is created, and the result of the download counts no error.
C10_EmptyCandidatesNoError ==
    (pc = "done" /\ urls = <<>>)
        => /\ files = startFiles
           /\ cycle = 1 => ~dirExists
           /\ NoOp("IMGGET") /\ NoOp("JSONWRITE") /\ NoOp("GET")
           /\ result.error_count = 0
           /\ result.success

(* ------------------------------ pagination ----------------------------- *)
(* SpecPages: one call of a paginating client function, or one             *)
(* _download_collection, against a server that holds pgSrv.n items.        *)

\* the largest listing the server holds
MaxEpisodes == 49
\* the largest explicit limit argument
MaxLimit == 30

\* count = 24, "API default page size"
PageSize == 24
\* limit: int = 1000 of the fetch_* functions
FetchLimit == 1000
\* limit: int = 200 of the find_* functions
SearchLimit == 200
\* the page length of the test server
MockPageLen == 2

FetchFns == {"fetch_program_set_episodes", "fetch_editorial_collection"}
FindFns == {"find_program_sets_by_editorial_category_id",
            "find_editorial_collections_by_editorial_category_id"}

\* the query a function loads
QueryOf(name) ==
    CASE name = "fetch_program_set_episodes" -> "ProgramSetEpisodesQuery"
      [] name = "fetch_editorial_collection" -> "editorialCollection"
      [] name = "find_program_sets_by_editorial_category_id" -> "ProgramSetsByEditorialCategoryId"
      [] OTHER -> "EditorialCategoryCollections"

\* The server's answer to (offset, count): the items after the first offset
\* ones, at most cap of them; a server that honours count sends no more than
\* count.  Items are numbered in server order.
ServerPage(srv, offset, count) ==
    LET k == IF srv.honours THEN Min2(count, srv.cap) ELSE srv.cap
        hi == Min2(srv.n, offset + k)
    IN [i \in 1..Max2(0, hi - offset) |-> offset + i]

HasNextPage(srv, offset, count) == offset + Len(ServerPage(srv, offset, count)) < srv.n

\* the largest limit and the longest page tried against a server that may
\* answer anything, and the ids its nodes carry
MaxLoopLimit == 3
MaxPageLen == 2
LoopIds == 1..3
FreeAnswers ==
    [nodes : UNION { [1..n -> LoopIds] : n \in 0..MaxPageLen }, has_next : BOOLEAN]

\* what _graphql_get may return for (offset, count): the page of the listing
\* the server holds, or anything from a server that is not bound to one
ServerAnswers(srv, offset, count) ==
    IF srv.free THEN FreeAnswers
    ELSE {[nodes |-> ServerPage(srv, offset, count),
           has_next |-> HasNextPage(srv, offset, count)]}

\* _graphql_get through the response cache: a key the cache holds makes no
\* HTTP request; any other makes one and is stored
GraphqlKey(op, offset, count) == [op |-> op, offset |-> offset, count |-> count]

RequestsAfter(key) == IF key \in pgCache THEN pgReqs ELSE Append(pgReqs, key)

\* where a function goes when its loop ends: _download_collection asks for
\* the program set record after fetch_program_set_episodes
AfterLoop ==
    IF pgFn.download /\ pgFn.name = "fetch_program_set_episodes" THEN "metadata" ELSE "done"

\* variant: every request asks for a full page
RequestCount_full(remaining) == PageSize
\* "count": min(count, remaining)
RequestCount(remaining) == Min2(PageSize, remaining)

\* variant: the offset stays where it is
NextOffset_same(offset) == offset
\* offset += count
NextOffset(offset) == offset + PageSize

\* nodes.extend(page_nodes)
Extend(nodes, page_nodes) == nodes \o page_nodes
\* collections_by_id[str(node_id)] = node, for every node of every section
MergeById(nodes, page_nodes) == AppendAllNew(nodes, page_nodes)
\* variant: the loop ends after its first page
WhileHasNext_never(page_nodes, has_next) == FALSE
\* if not page_info.get("hasNextPage"): break
WhileHasNext(page_nodes, has_next) == has_next
\* if len(collections_by_id) == before_count: break
WhileNew(page_nodes, has_next) == \E i \in 1..Len(page_nodes) : ~InSeq(page_nodes[i], pgNodes)

\* the node list after a page, and whether the loop goes on after it
MergePage(name, nodes, page_nodes) ==
    IF name = "find_editorial_collections_by_editorial_category_id"
    THEN MergeById(nodes, page_nodes) ELSE Extend(nodes, page_nodes)
LoopGoesOn(name, page_nodes, has_next) ==
    IF name = "find_editorial_collections_by_editorial_category_id"
    THEN WhileNew(page_nodes, has_next) ELSE WhileHasNext(page_nodes, has_next)

\* one iteration of the while loop of a paginating function
PageIteration(name) ==
    /\ pgPc = "loop"
    /\ pgFn.name = name
    /\ LET remaining == Max2(0, pgLimit - Len(pgNodes))
           count == RequestCount(remaining)
           key == GraphqlKey(QueryOf(name), pgOffset, count)
       IN IF remaining = 0
          THEN /\ pgPc' = AfterLoop
               /\ UNCHANGED <<pgOffset, pgNodes, pgReqs, pgCache, pgMeta, pgPages>>
          ELSE \E answer \in ServerAnswers(pgSrv, pgOffset, count) :
               LET page_nodes == answer.nodes
               IN
               /\ pgReqs' = RequestsAfter(key)
               /\ pgCache' = pgCache \cup {key}
               /\ pgPages' = Append(pgPages, answer)
               /\ pgMeta' = IF name = "fetch_editorial_collection" /\ pgMeta = "none"
                            THEN "first_page" ELSE pgMeta
               /\ IF page_nodes = <<>>
                  THEN /\ pgPc' = AfterLoop
                       /\ UNCHANGED <<pgOffset, pgNodes>>
                  ELSE /\ pgNodes' = MergePage(name, pgNodes, page_nodes)
                       /\ IF LoopGoesOn(name, page_nodes, answer.has_next)
                          THEN /\ pgOffset' = NextOffset(pgOffset)
                               /\ pgPc' = "loop"
                          ELSE /\ pgOffset' = pgOffset
                               /\ pgPc' = AfterLoop
    /\ UNCHANGED <<pgFn, pgSrv, pgLimit>>
    /\ UNCHANGED nonPageVars

fetch_program_set_episodes ==
    PageIteration("fetch_program_set_episodes")
fetch_editorial_collection ==
    PageIteration("fetch_editorial_collection")
find_program_sets_by_editorial_category_id ==
    PageIteration("find_program_sets_by_editorial_category_id")
find_editorial_collections_by_editorial_category_id ==
    PageIteration("find_editorial_collections_by_editorial_category_id")

\* get_program_set_data(resource_id): ProgramSetEpisodesQuery with offset 0
\* and count 1
get_program_set_data ==
    /\ pgPc = "metadata"
    /\ LET key == GraphqlKey("ProgramSetEpisodesQuery", 0, 1)
       IN /\ pgReqs' = RequestsAfter(key)
          /\ pgCache' = pgCache \cup {key}
          /\ pgMeta' = IF key \in pgCache THEN "cache" ELSE "own_request"
    /\ pgPc' = "done"
    /\ UNCHANGED <<pgFn, pgSrv, pgLimit, pgOffset, pgNodes, pgPages>>
    /\ UNCHANGED nonPageVars

PageCalls ==
    {c \in [name : FetchFns \cup FindFns, download : BOOLEAN] :
        c.download => c.name \in FetchFns}

PageLimits(c) ==
    IF c.download THEN {FetchLimit}
    ELSE (0..MaxLimit) \cup (IF c.name \in FetchFns THEN {FetchLimit} ELSE {SearchLimit})

PagesInit ==
    /\ pgFn \in PageCalls
    /\ pgSrv \in [n : 0..MaxEpisodes, cap : {MockPageLen, PageSize}, honours : BOOLEAN,
                  free : {FALSE}]
    /\ pgLimit \in PageLimits(pgFn)
    /\ pgPc = "loop"
    /\ pgOffset = 0
    /\ pgNodes = <<>>
    /\ pgReqs = <<>>
    /\ pgCache = {}
    /\ pgMeta = "none"
    /\ pgPages = <<>>

InitPages == ReconInit /\ PoolIdle /\ PagesInit /\ CacheIdle /\ LockIdle /\ StemIdle /\ CollIdle /\ ResIdle /\ LaterIdle

NextPages ==
    \/ fetch_program_set_episodes
    \/ fetch_editorial_collection
    \/ find_program_sets_by_editorial_category_id
    \/ find_editorial_collections_by_editorial_category_id
    \/ get_program_set_data

SpecPages == InitPages /\ [][NextPages]_vars

\* the listing is served in pages of 24
ServedInPages == pgSrv.cap = PageSize /\ pgSrv.honours
CeilDiv(a, b) == (a + b - 1) \div b
PageOffsets(k) == [i \in 1..k |-> (i - 1) * PageSize]
RequestOffsets == [i \in 1..Len(pgReqs) |-> pgReqs[i].offset]
ServerItems(k) == [i \in 1..k |-> i]
FetchDone == pgPc = "done" /\ ~pgFn.download /\ pgFn.name \in FetchFns /\ ServedInPages

\* C11 as stated: a listing of N items served in pages of 24 is fetched with
\* exactly ceil(N/24) requests at offsets 0, 24, 48, ... and all N items are
\* returned in server order.
C11_AllPagesAllNodes ==
    FetchDone =>
        /\ RequestOffsets = PageOffsets(CeilDiv(pgSrv.n, PageSize))
        /\ pgNodes = ServerItems(pgSrv.n)

\* C11: a listing of N items served in pages of 24 is fetched completely and
\* in server order with ceil(N/24) requests at offsets 0, 24, 48, ... when
\* 1 <= N <= limit; an empty listing costs one request; a listing longer than
\* the limit is cut to its first limit items, fetched with ceil(limit/24)
\* requests.
C11_AllPagesUpToLimit ==
    FetchDone =>
        LET got == Min2(pgSrv.n, pgLimit)
        IN /\ pgNodes = ServerItems(got)
           /\ RequestOffsets =
                PageOffsets(IF pgSrv.n = 0 /\ pgLimit > 0 THEN 1 ELSE CeilDiv(got, PageSize))
C11_Witness ==
    /\ FetchDone
    /\ pgSrv.n = 49
    /\ pgLimit = FetchLimit
    /\ Len(pgReqs) = 3
    /\ pgNodes = ServerItems(49)

ProgramDownloadDone ==
    pgPc = "done" /\ pgFn.download /\ pgFn.name = "fetch_program_set_episodes" /\ ServedInPages

\* C12: the download of a program set, started with an empty cache, makes no
\* GraphQL request besides the page requests (two requests, at offsets 0 and
\* 24, for a listing of two pages) and takes the collection-level record from
\* the first listing page.
C12_NoRequestBesidesPages ==
    (ProgramDownloadDone /\ pgSrv.n >= 1) =>
        /\ RequestOffsets = PageOffsets(CeilDiv(pgSrv.n, PageSize))
        /\ \A i \in 1..Len(pgReqs) : pgReqs[i].count = PageSize
        /\ pgMeta = "first_page"

SearchDone == pgPc = "done" /\ pgFn.name \in FindFns

\* C13 as stated: a category search never returns more than limit items.
C13_NeverMoreThanLimit ==
    SearchDone => Len(pgNodes) <= pgLimit

\* C13: a category search asks the server for no more than the remaining
\* count and keeps whatever a page holds; against a server that sends at most
\* the count asked for it never returns more than limit items, and with
\* limit 3 and pages of 2 items it returns 3 items after 2 requests.
C13_AtMostLimitFromHonestServer ==
    SearchDone =>
        /\ \A i \in 1..Len(pgReqs) : pgReqs[i].count <= pgLimit
        /\ pgSrv.honours =>
             /\ Len(pgNodes) <= pgLimit
             /\ (pgLimit = 3 /\ pgSrv.cap = MockPageLen /\ pgSrv.n > PageSize)
                  => /\ pgNodes = <<1, 2, PageSize + 1>>
                     /\ RequestOffsets = <<0, PageSize>>
C13_Witness ==
    /\ SearchDone
    /\ pgFn.name = "find_editorial_collections_by_editorial_category_id"
    /\ pgSrv = [n |-> PageSize + 2, cap |-> MockPageLen, honours |-> TRUE, free |-> FALSE]
    /\ pgLimit = 3
    /\ Len(pgNodes) = 3
    /\ Len(pgReqs) = 2

(* ----------------------- response cache: actions ----------------------- *)

CacheInit ==
    /\ cCfg \in CacheConfigs
    /\ cN \in Threads
    /\ cNow = 0
    /\ cDb = [k \in Keys |-> NoRow]
    /\ cThr = [t \in Threads |-> IdleThread]
    /\ cCalls = 0
    /\ cVer = 0
    /\ cLastSet = [k \in Keys |-> NoSet]
    /\ cEvictedOther = "no"

Unchanged_cache_rest == UNCHANGED nonCacheVars

\* variant: an entry as old as the time to live is stale already
Stale_ge(age, ttl) == age >= ttl
\* if time.time() - updated_at > self.ttl_seconds
Stale(age, ttl) == age > ttl

\* variant: no cached answer counts as a hit
IsHit_never(cached) == FALSE
\* if cached is not None
IsHit(cached) == cached # None

\* a call begins
Begin(t, op, k, v) ==
    [IdleThread EXCEPT !.op = op, !.key = k, !.val = v, !.start = cDb, !.tchk = cNow]

CanCall(t) == t <= cN /\ cThr[t].pc = "idle" /\ cCalls < MaxCalls

\* the end of cache.get inside a call: get returns; _graphql_get goes on
AfterGet(th, cached) ==
    IF th.op = "get" THEN [th EXCEPT !.pc = "ret", !.ret = cached]
    ELSE IF IsHit(cached) THEN [th EXCEPT !.pc = "ret", !.ret = cached]
    ELSE [th EXCEPT !.pc = "http"]

\* get, lines 90-93: a cache without time to live answers None at once
CacheGet(t) ==
    \E k \in Keys, op \in {"get", "graphql"} :
        /\ CanCall(t)
        /\ cCalls' = cCalls + 1
        /\ cThr' = [cThr EXCEPT ![t] =
              IF ttl_seconds(cCfg) <= 0 THEN AfterGet(Begin(t, op, k, None), None)
              ELSE [Begin(t, op, k, None) EXCEPT !.pc = "select"]]
        /\ UNCHANGED <<cCfg, cN, cNow, cDb, cVer, cLastSet, cEvictedOther>>
        /\ Unchanged_cache_rest

\* get, lines 94-99: the SELECT, under the lock
GetSelect(t) ==
    /\ cThr[t].pc = "select"
    /\ cThr' = [cThr EXCEPT ![t].row = cDb[cThr[t].key], ![t].pc = "check"]
    /\ UNCHANGED <<cCfg, cN, cNow, cDb, cCalls, cVer, cLastSet, cEvictedOther>>
    /\ Unchanged_cache_rest

\* get, lines 101-113: the row is judged after the lock was released
GetCheck(t) ==
    /\ cThr[t].pc = "check"
    /\ LET th == [cThr[t] EXCEPT !.tchk = cNow]
       IN cThr' = [cThr EXCEPT ![t] =
            IF th.row = NoRow THEN AfterGet(th, None)
            ELSE IF Stale(cNow - th.row.updated_at, ttl_seconds(cCfg))
                 THEN [th EXCEPT !.pc = "evict"]
                 ELSE AfterGet(th, Loads(th.row.payload))]
    /\ UNCHANGED <<cCfg, cN, cNow, cDb, cCalls, cVer, cLastSet, cEvictedOther>>
    /\ Unchanged_cache_rest

\* _evict, lines 149-156: DELETE ... WHERE cache_key = ?, under the lock
Evict(t) ==
    /\ cThr[t].pc = "evict"
    /\ cDb' = [cDb EXCEPT ![cThr[t].key] = NoRow]
    /\ LET gone == cDb[cThr[t].key]
       IN cEvictedOther' =
            IF gone = NoRow \/ gone = cThr[t].row THEN cEvictedOther
            ELSE IF Stale(cNow - gone.updated_at, ttl_seconds(cCfg)) /\ cEvictedOther # "fresh"
                 THEN "stale" ELSE "fresh"
    /\ cThr' = [cThr EXCEPT ![t] = AfterGet(cThr[t], None)]
    /\ UNCHANGED <<cCfg, cN, cNow, cCalls, cVer, cLastSet>>
    /\ Unchanged_cache_rest

\* set, lines 117-122: nothing without time to live; else the payload and
\* the timestamp are taken before the lock
CacheSet(t) ==
    \E k \in Keys, v \in Objects :
        /\ CanCall(t)
        /\ cCalls' = cCalls + 1
        /\ IF ttl_seconds(cCfg) <= 0
           THEN /\ cThr' = [cThr EXCEPT ![t] = [Begin(t, "set", k, v) EXCEPT !.pc = "ret"]]
                /\ cLastSet' = [cLastSet EXCEPT ![k] = [set |-> TRUE, val |-> v, t |-> cNow]]
           ELSE /\ cThr' = [cThr EXCEPT ![t] = [Begin(t, "set", k, v) EXCEPT !.pc = "insert", !.ts = cNow]]
                /\ UNCHANGED cLastSet
        /\ UNCHANGED <<cCfg, cN, cNow, cDb, cVer, cEvictedOther>>
        /\ Unchanged_cache_rest

\* set, lines 124-137: INSERT ... ON CONFLICT DO UPDATE, under the lock
SetInsert(t) ==
    /\ cThr[t].pc = "insert"
    /\ cVer' = cVer + 1
    /\ cDb' = [cDb EXCEPT ![cThr[t].key] =
          [payload |-> Dumps(cThr[t].val), updated_at |-> cThr[t].ts, ver |-> cVer + 1]]
    /\ cLastSet' = [cLastSet EXCEPT ![cThr[t].key] = [set |-> TRUE, val |-> cThr[t].val, t |-> cThr[t].ts]]
    /\ cThr' = [cThr EXCEPT ![t].pc = "ret",
                            ![t].ret = IF cThr[t].op = "graphql" THEN cThr[t].val ELSE None]
    /\ UNCHANGED <<cCfg, cN, cNow, cCalls, cEvictedOther>>
    /\ Unchanged_cache_rest

\* clear, lines 139-147
CacheClear(t) ==
    /\ CanCall(t)
    /\ cCalls' = cCalls + 1
    /\ cThr' = [cThr EXCEPT ![t] = [Begin(t, "clear", 1, None) EXCEPT !.pc = "ret"]]
    /\ IF ttl_seconds(cCfg) <= 0
       THEN UNCHANGED <<cDb, cLastSet>>
       ELSE /\ cDb' = [k \in Keys |-> NoRow]
            /\ cLastSet' = [k \in Keys |-> NoSet]
    /\ UNCHANGED <<cCfg, cN, cNow, cVer, cEvictedOther>>
    /\ Unchanged_cache_rest

\* _graphql_get, lines 63-80: the request; a 2xx answer with a JSON body is
\* stored and returned, anything else raises GraphQLError
HttpOutcomes == {"ok", "status", "badjson", "neterr"}
SessionGet(t) ==
    \E o \in HttpOutcomes, v \in Objects \cup {None} :
        /\ cThr[t].pc = "http"
        /\ o # "ok" => v = None
        /\ LET th == [cThr[t] EXCEPT !.http = @ + 1, !.outcome = o, !.val = v]
           IN cThr' = [cThr EXCEPT ![t] =
                IF o # "ok" THEN [th EXCEPT !.pc = "ret", !.ret = GraphQLError]
                ELSE IF ttl_seconds(cCfg) <= 0 THEN [th EXCEPT !.pc = "ret", !.ret = v]
                ELSE [th EXCEPT !.pc = "insert", !.ts = cNow]]
        /\ UNCHANGED <<cCfg, cN, cNow, cDb, cCalls, cVer, cLastSet, cEvictedOther>>
        /\ Unchanged_cache_rest

\* the call returns to its caller
CacheReturn(t) ==
    /\ cThr[t].pc = "ret"
    /\ cThr' = [cThr EXCEPT ![t] = IdleThread]
    /\ UNCHANGED <<cCfg, cN, cNow, cDb, cCalls, cVer, cLastSet, cEvictedOther>>
    /\ Unchanged_cache_rest

\* time passes
Tick ==
    /\ cNow < MaxTime
    /\ cNow' = cNow + 1
    /\ UNCHANGED <<cCfg, cN, cDb, cThr, cCalls, cVer, cLastSet, cEvictedOther>>
    /\ Unchanged_cache_rest

InitCache == ReconInit /\ PoolIdle /\ PagesIdle /\ CacheInit /\ LockIdle /\ StemIdle /\ CollIdle /\ ResIdle /\ LaterIdle

NextCache ==
    \/ \E t \in Threads : CacheGet(t)
    \/ \E t \in Threads : GetSelect(t)
    \/ \E t \in Threads : GetCheck(t)
    \/ \E t \in Threads : Evict(t)
    \/ \E t \in Threads : CacheSet(t)
    \/ \E t \in Threads : SetInsert(t)
    \/ \E t \in Threads : CacheClear(t)
    \/ \E t \in Threads : SessionGet(t)
    \/ \E t \in Threads : CacheReturn(t)
    \/ Tick

SpecCache == InitCache /\ [][NextCache]_vars

\* a get that has just returned, called while no other thread uses the cache
GetReturned(t) == cN = 1 /\ cThr[t].pc = "ret" /\ cThr[t].op = "get"
AgeAtGet(t) == cThr[t].tchk - cLastSet[cThr[t].key].t

\* C14 as stated: after set(r) at time t with no later set or clear of the
\* key, get at time t' returns r when t' - t <= TTL, and returns absent and
\* deletes the entry when t' - t > TTL.
C14_FreshWithinTtl ==
    \A t \in Threads :
        (GetReturned(t) /\ cLastSet[cThr[t].key].val \in Objects) =>
            IF AgeAtGet(t) <= cCfg.ttl
            THEN cThr[t].ret = cLastSet[cThr[t].key].val
            ELSE cThr[t].ret = None /\ cDb[cThr[t].key] = NoRow

\* C14: on a cache that is enabled with a time to live above zero, and with
\* calls that do not overlap, after set(r) at time t with no later set or
\* clear of the key, get at time t' returns r when t' - t <= TTL, and returns
\* absent and leaves no entry when t' - t > TTL; a cache that is disabled or
\* has a time to live of zero stores nothing and always answers absent.
C14_FreshWithinTtlWhenEnabled ==
    \A t \in Threads :
        (GetReturned(t) /\ cLastSet[cThr[t].key].val \in Objects) =>
            IF ttl_seconds(cCfg) > 0 /\ AgeAtGet(t) <= ttl_seconds(cCfg)
            THEN cThr[t].ret = cLastSet[cThr[t].key].val
            ELSE cThr[t].ret = None /\ cDb[cThr[t].key] = NoRow
C14_Witness ==
    \E t \in Threads :
        /\ GetReturned(t)
        /\ cLastSet[cThr[t].key].val \in Objects
        /\ AgeAtGet(t) = ttl_seconds(cCfg)
        /\ ttl_seconds(cCfg) > 0
        /\ cThr[t].ret = cLastSet[cThr[t].key].val

\* C15: the eviction of a get deletes only the entry that the get read: an
\* entry stored by a set that completed after the read is never deleted by it.
C15_EvictsOnlyWhatItRead == cEvictedOther = "no"

\* a _graphql_get that has just returned or raised, called while no other
\* thread uses the cache
GraphqlReturned(t) == cN = 1 /\ cThr[t].pc = "ret" /\ cThr[t].op = "graphql"
\* the cache held, when the call looked, an entry of the key within its time
\* to live
HeldFresh(t) ==
    /\ ttl_seconds(cCfg) > 0
    /\ cThr[t].start[cThr[t].key] # NoRow
    /\ cThr[t].tchk - cThr[t].start[cThr[t].key].updated_at <= ttl_seconds(cCfg)
Raised(t) == cThr[t].ret = GraphQLError

\* C16 as stated: no HTTP request when the cache holds a fresh entry and
\* exactly one otherwise; the response is stored only after a 2xx answer with
\* valid JSON; any other answer raises GraphQLError after that one request
\* and leaves the cache unchanged.
C16_RequestDiscipline ==
    \A t \in Threads :
        GraphqlReturned(t) =>
            /\ cThr[t].http = (IF HeldFresh(t) THEN 0 ELSE 1)
            /\ cDb # cThr[t].start => cThr[t].outcome = "ok"
            /\ Raised(t) <=> cThr[t].outcome \in HttpOutcomes \ {"ok"}
            /\ Raised(t) => cDb = cThr[t].start

\* C16: no HTTP request when the cache holds a fresh entry whose response is
\* not the JSON value null, and exactly one otherwise; a response is stored
\* only after a 2xx answer with valid JSON (and only by a cache with a time
\* to live); any other answer raises GraphQLError after that one request and
\* stores nothing: the cache is as before, except that a stale entry of the
\* key has been evicted by the lookup.
C16_RequestDisciplineUpToEviction ==
    \A t \in Threads :
        GraphqlReturned(t) =>
            LET k == cThr[t].key
                hit == HeldFresh(t) /\ Loads(cThr[t].start[k].payload) # None
                stale == cThr[t].start[k] # NoRow /\ ~HeldFresh(t)
            IN /\ cThr[t].http = (IF hit THEN 0 ELSE 1)
               /\ hit => cThr[t].ret = Loads(cThr[t].start[k].payload) /\ cDb = cThr[t].start
               /\ Raised(t) <=> cThr[t].outcome \in HttpOutcomes \ {"ok"}
               /\ Raised(t) => cDb[k] = (IF stale THEN NoRow ELSE cThr[t].start[k])
               /\ (~hit /\ ~Raised(t)) =>
                    /\ cThr[t].outcome = "ok"
                    /\ cThr[t].ret = cThr[t].val
                    /\ IF ttl_seconds(cCfg) > 0
                       THEN cDb[k].payload = Dumps(cThr[t].val) /\ cDb[k].updated_at >= cThr[t].tchk
                       ELSE cDb = cThr[t].start
C16_Witness ==
    \E t \in Threads :
        /\ GraphqlReturned(t)
        /\ Raised(t)
        /\ cThr[t].http = 1
        /\ cThr[t].start[cThr[t].key] # NoRow
        /\ cDb[cThr[t].key] = NoRow

(* -------------------------- asset lock: actions ------------------------- *)

LockInit ==
    /\ lkPath = NoInode
    /\ lkHeld = <<>>
    /\ lkProc = [p \in Procs |-> [pc |-> "start", fd |-> NoInode, timed_out |-> FALSE]]
    /\ lkTouched = {}

\* FileLock.acquire: os.open(lock_path, O_RDWR | O_CREAT | O_TRUNC) opens the
\* file the path names and creates one when there is none
LockOpen(p) ==
    /\ lkProc[p].pc \in {"start", "poll"}
    /\ IF lkPath = NoInode
       THEN /\ lkHeld' = Append(lkHeld, Nobody)
            /\ lkPath' = Len(lkHeld) + 1
       ELSE UNCHANGED <<lkHeld, lkPath>>
    /\ lkProc' = [lkProc EXCEPT ![p].pc = "opened", ![p].fd = lkPath']
    /\ UNCHANGED lkTouched
    /\ UNCHANGED nonLockVars

\* FileLock.acquire: fcntl.flock(fd, LOCK_EX | LOCK_NB) on the opened file;
\* when another holds it the file is closed and the caller polls again
LockFlock(p) ==
    /\ lkProc[p].pc = "opened"
    /\ IF lkHeld[lkProc[p].fd] = Nobody
       THEN /\ lkHeld' = [lkHeld EXCEPT ![lkProc[p].fd] = p]
            /\ lkProc' = [lkProc EXCEPT ![p].pc = "inside"]
       ELSE /\ lkProc' = [lkProc EXCEPT ![p].pc = "poll", ![p].fd = NoInode]
            /\ UNCHANGED lkHeld
    /\ UNCHANGED <<lkPath, lkTouched>>
    /\ UNCHANGED nonLockVars

\* FileLock.acquire: the timeout expires while polling; Timeout is raised
LockTimeout(p) ==
    /\ lkProc[p].pc = "poll"
    /\ lkProc' = [lkProc EXCEPT ![p].pc = "finally", ![p].timed_out = TRUE]
    /\ UNCHANGED <<lkPath, lkHeld, lkTouched>>
    /\ UNCHANGED nonLockVars

\* the body of the with statement: the caller reads and writes the asset
LockedSection(p) ==
    /\ lkProc[p].pc = "inside"
    /\ p \notin lkTouched
    /\ lkTouched' = lkTouched \cup {p}
    /\ UNCHANGED <<lkPath, lkHeld, lkProc>>
    /\ UNCHANGED nonLockVars

\* FileLock.release: flock(fd, LOCK_UN) and close
LockRelease(p) ==
    /\ lkProc[p].pc = "inside"
    /\ p \in lkTouched
    /\ lkHeld' = [lkHeld EXCEPT ![lkProc[p].fd] = Nobody]
    /\ lkProc' = [lkProc EXCEPT ![p].pc = "finally", ![p].fd = NoInode]
    /\ UNCHANGED <<lkPath, lkTouched>>
    /\ UNCHANGED nonLockVars

\* finally: if os.path.exists(lock_path): os.remove(lock_path)
RemoveLockFile(p) == NoInode

\* the finally block, then FileOperationError for a caller that timed out
LockFinally(p) ==
    /\ lkProc[p].pc = "finally"
    /\ lkPath' = RemoveLockFile(p)
    /\ lkProc' = [lkProc EXCEPT ![p].pc = IF lkProc[p].timed_out THEN "FileOperationError" ELSE "done"]
    /\ UNCHANGED <<lkHeld, lkTouched>>
    /\ UNCHANGED nonLockVars

InitLock == ReconInit /\ PoolIdle /\ PagesIdle /\ CacheIdle /\ LockInit /\ StemIdle /\ CollIdle /\ ResIdle /\ LaterIdle

NextLock ==
    \/ \E p \in Procs : LockOpen(p)
    \/ \E p \in Procs : LockFlock(p)
    \/ \E p \in Procs : LockTimeout(p)
    \/ \E p \in Procs : LockedSection(p)
    \/ \E p \in Procs : LockRelease(p)
    \/ \E p \in Procs : LockFinally(p)

SpecLock == InitLock /\ [][NextLock]_vars

Inside == {p \in Procs : lkProc[p].pc = "inside"}

\* C17: at any time at most one caller is inside the locked section of an
\* asset path; a caller that timed out has not read or written the asset and
\* ends with FileOperationError.
C17_AtMostOneInside ==
    /\ Cardinality(Inside) <= 1
    /\ \A p \in Procs :
         lkProc[p].timed_out =>
            /\ p \notin lkTouched
            /\ lkProc[p].pc \in {"finally", "FileOperationError"}

(* ------------------------ filename stems: actions ----------------------- *)

TitleChars == {"a", " "}
IdChars == {"a", "_"}
\* \w of re.findall(r"(\w+)", title)
IsWord(c) == c \in {"a", "_", "0", "1"}

SeqsUpTo(S, n) == UNION {[1..k -> S] : k \in 0..n}

\* the length of the longest prefix of word characters
WordPrefixLen(s) ==
    LET bad == {i \in 1..Len(s) : ~IsWord(s[i])}
    IN IF bad = {} THEN Len(s) ELSE (CHOOSE i \in bad : \A j \in bad : i <= j) - 1

\* re.findall(r"(\w+)", title): the maximal runs of word characters
RECURSIVE FindWords(_)
FindWords(s) ==
    IF s = <<>> THEN <<>>
    ELSE IF ~IsWord(Head(s)) THEN FindWords(Tail(s))
    ELSE LET n == WordPrefixLen(s)
         IN <<SubSeq(s, 1, n)>> \o FindWords(SubSeq(s, n + 1, Len(s)))

\* "_".join(array_filename)
RECURSIVE JoinUnderscore(_)
JoinUnderscore(words) ==
    IF words = <<>> THEN <<>>
    ELSE IF Len(words) = 1 THEN words[1]
    ELSE words[1] \o <<"_">> \o JoinUnderscore(Tail(words))

\* str(index) of a list position
StrIndex(index) == IF index = 0 THEN <<"0">> ELSE <<"1">>

\* node_id = str(node.get("id") or index)
NodeId(n, index) == IF n.id = <<>> THEN StrIndex(index) ELSE n.id

\* lines 604-610: filename = f"{filename_base}_{node_id}"
Filename(n, index) ==
    LET node_id == NodeId(n, index)
        title == IF n.title = <<>> THEN node_id ELSE n.title
        array_filename == FindWords(title)
        filename_base == IF array_filename = <<>> THEN node_id ELSE JoinUnderscore(array_filename)
    IN filename_base \o <<"_">> \o node_id

\* lines 620-626: the folder of the node's program set, "episode" without one
ProgramFolder(n) == IF n.programSet = "" THEN "episode" ELSE n.programSet

StemNodes == [id : SeqsUpTo(IdChars, MaxIdLen), title : SeqsUpTo(TitleChars, MaxTitleLen),
              programSet : {"", "ps1"}]

StemInit ==
    /\ stNodes \in [1..2 -> StemNodes]
    /\ stPaths = <<>>

\* _save_nodes: the next list entry goes through _process_single_node
ProcessNode ==
    /\ Len(stPaths) < Len(stNodes)
    /\ LET i == Len(stPaths) + 1
       IN stPaths' = Append(stPaths, [folder |-> ProgramFolder(stNodes[i]),
                                      filename |-> Filename(stNodes[i], i - 1)])
    /\ UNCHANGED stNodes
    /\ UNCHANGED nonStemVars

InitStem == ReconInit /\ PoolIdle /\ PagesIdle /\ CacheIdle /\ LockIdle /\ StemInit /\ CollIdle /\ ResIdle /\ LaterIdle

NextStem == ProcessNode

SpecStem == InitStem /\ [][NextStem]_vars

\* C18: two entries of a node list whose episode ids differ never get the
\* same (folder, filename stem), whatever their titles.
C18_DistinctIdsDistinctPaths ==
    Len(stPaths) = 2 =>
        (stNodes[1].id # stNodes[2].id => stPaths[1] # stPaths[2])

(* ---------------------- collection folders: actions --------------------- *)

\* a node of the listing: its program set, if any, and whether it has an
\* audio URL
ListingNodes == [programSet : {"", "ps1", "ps2"}, audio : BOOLEAN]
CollectionRecords ==
    {[present |-> FALSE, id |-> "", image |-> FALSE]}
        \cup [present : {TRUE}, id : {"", "c1"}, image : BOOLEAN]

CollInit ==
    /\ clNodes \in UNION {[1..k -> ListingNodes] : k \in 1..MaxListing}
    /\ clData \in CollectionRecords
    /\ clEditorial \in BOOLEAN
    /\ clPc = "nodes"
    /\ clIdx = 1
    /\ clFiles = {}

\* the filename stems of the listing's episodes
EpisodeNames == <<"e1", "e2", "e3">>
\* _process_single_node, lines 620-626: program_set.get("id") or "episode"
EpisodeFolder(n) == IF n.programSet = "" THEN "episode" ELSE n.programSet
\* _save_collection_metadata, lines 485-491:
\* program_set.get("id") or collection_data.get("id") or "collection"
CollectionFolder(first_node, collection_data) ==
    IF first_node.programSet # "" THEN first_node.programSet
    ELSE IF collection_data.id # "" THEN collection_data.id
    ELSE "collection"
\* _save_collection_data, line 506
CollectionFileId(collection_data, is_editorial_collection) ==
    IF collection_data.id # "" THEN collection_data.id
    ELSE IF is_editorial_collection THEN "collection" ELSE "program_set"

\* _save_nodes: the next node goes through _process_single_node; a node
\* without audio URL is skipped before its folder is made
CollectionNode ==
    /\ clPc = "nodes"
    /\ clFiles' = IF clNodes[clIdx].audio
                  THEN clFiles \cup {[folder |-> EpisodeFolder(clNodes[clIdx]), kind |-> "episode",
                                      name |-> EpisodeNames[clIdx], ext |-> ".mp3"]}
                  ELSE clFiles
    /\ clIdx' = clIdx + 1
    /\ clPc' = IF clIdx < Len(clNodes) THEN "nodes"
               ELSE IF clData.present THEN "metadata" ELSE "done"
    /\ UNCHANGED <<clNodes, clData, clEditorial>>
    /\ UNCHANGED nonCollVars

\* _save_collection_metadata and _save_collection_data: <id>.json, and
\* <id>.jpg when the record names an image
_save_collection_metadata ==
    /\ clPc = "metadata"
    /\ LET program_path == CollectionFolder(clNodes[1], clData)
           collection_id == CollectionFileId(clData, clEditorial)
       IN clFiles' = clFiles
            \cup {[folder |-> program_path, kind |-> "collection", name |-> collection_id, ext |-> ".json"]}
            \cup (IF clData.image
                  THEN {[folder |-> program_path, kind |-> "collection", name |-> collection_id, ext |-> ".jpg"]}
                  ELSE {})
    /\ clPc' = "done"
    /\ UNCHANGED clIdx
    /\ UNCHANGED <<clNodes, clData, clEditorial>>
    /\ UNCHANGED nonCollVars

InitCollection == ReconInit /\ PoolIdle /\ PagesIdle /\ CacheIdle /\ LockIdle /\ StemIdle /\ CollInit /\ ResIdle /\ LaterIdle

NextCollection ==
    \/ CollectionNode
    \/ _save_collection_metadata

SpecCollection == InitCollection /\ [][NextCollection]_vars

FoldersOf(kind) == {f.folder : f \in {g \in clFiles : g.kind = kind}}

\* C19: after the download the collection-level files lie in a folder that
\* holds downloaded episodes: no folder holds collection-level files only.
C19_CollectionFilesWithEpisodes ==
    clPc = "done" => FoldersOf("collection") \subseteq FoldersOf("episode")

(* --------------------------- resolver: actions -------------------------- *)

Letters == {"a", "d", "e", "g", "h", "i", "n", "o", "p", "q", "r", "s", "t", "u", "w", "x"}
Digits == {"1"}
NL == "\n"

URN_ARD == <<"u", "r", "n", ":", "a", "r", "d", ":">>
URN_EPISODE == URN_ARD \o <<"e", "p", "i", "s", "o", "d", "e", ":">>
URN_PAGE == URN_ARD \o <<"p", "a", "g", "e", ":">>
URN_SHOW == URN_ARD \o <<"s", "h", "o", "w", ":">>

IdChunks == {URN_ARD, <<"e", "p", "i", "s", "o", "d", "e", ":">>, <<"p", "a", "g", "e", ":">>,
             <<"s", "h", "o", "w", ":">>, <<"a">>, <<"1">>, <<"_">>, <<NL>>}

RECURSIVE Concat(_)
Concat(chunks) == IF chunks = <<>> THEN <<>> ELSE Head(chunks) \o Concat(Tail(chunks))

ResolverIds == {Concat(cs) : cs \in UNION {[1..k -> IdChunks] : k \in 0..MaxChunks}}

UrlPrefixes == {<<"h", "t", "t", "p", "s", ":", "/", "/", "h", "/", "x", "/">>, <<"h", "/", "x", "/">>}
UrlSuffixes == {<<>>, <<"/">>, <<"?", "q">>}
ResolverUrls == {p \o i \o s : p \in UrlPrefixes, i \in ResolverIds, s \in UrlSuffixes}

NotResolved == [state |-> "returned", type |-> "None", id |-> <<>>]
ResourceInfo(type, id) == [state |-> "returned", type |-> type, id |-> id]

\* str.startswith
StartsWith(s, prefix) == Len(s) >= Len(prefix) /\ SubSeq(s, 1, Len(prefix)) = prefix
\* str.isdigit
IsDigit(s) == s # <<>> /\ \A i \in 1..Len(s) : s[i] \in Digits
\* the $ of a pattern: at the end of the string, or before a newline that
\* ends it
AtDollar(s, pos) == pos = Len(s) + 1 \/ (pos = Len(s) /\ s[pos] = NL)
\* re.match(r"^[a-zA-Z0-9]+$", s)
MatchAlnum(s) ==
    \E e \in 1..Len(s) :
        /\ \A i \in 1..e : s[i] \in Letters \cup Digits
        /\ AtDollar(s, e + 1)

\* variant: the rule for any urn:ard: prefix comes first
determine_resource_type_from_id_generic(resource_id) ==
    IF StartsWith(resource_id, URN_ARD) THEN ResourceInfo("program", resource_id)
    ELSE IF IsDigit(resource_id) THEN ResourceInfo("program", resource_id)
    ELSE IF MatchAlnum(resource_id) THEN ResourceInfo("program", resource_id)
    ELSE NotResolved
determine_resource_type_from_id(resource_id) ==
    IF StartsWith(resource_id, URN_EPISODE) THEN ResourceInfo("episode", resource_id)
    ELSE IF StartsWith(resource_id, URN_PAGE) THEN ResourceInfo("collection", resource_id)
    ELSE IF StartsWith(resource_id, URN_SHOW) THEN ResourceInfo("program", resource_id)
    ELSE IF StartsWith(resource_id, URN_ARD) THEN ResourceInfo("program", resource_id)
    ELSE IF IsDigit(resource_id) THEN ResourceInfo("program", resource_id)
    ELSE IF MatchAlnum(resource_id) THEN ResourceInfo("program", resource_id)
    ELSE NotResolved

\* urlparse(url): the network location follows "//" after the scheme and
\* ends at the next "/", "?" or "#"; the path follows and ends at "?" or "#"
SCHEME_SLASHES == <<"h", "t", "t", "p", "s", ":", "/", "/">>
FirstOf(s, from, stops) ==
    LET hits == {i \in from..Len(s) : s[i] \in stops}
    IN IF hits = {} THEN Len(s) + 1 ELSE CHOOSE i \in hits : \A j \in hits : i <= j
UrlParse(url) ==
    IF StartsWith(url, SCHEME_SLASHES)
    THEN LET a == Len(SCHEME_SLASHES) + 1
             b == FirstOf(url, a, {"/", "?", "#"})
             c == FirstOf(url, b, {"?", "#"})
         IN [netloc |-> SubSeq(url, a, b - 1), path |-> SubSeq(url, b, c - 1)]
    ELSE [netloc |-> <<>>, path |-> SubSeq(url, 1, FirstOf(url, 1, {"?", "#"}) - 1)]

\* what may follow the group of r"/(...)/?$": nothing, or "/", up to $
TailOk(url, e) == AtDollar(url, e + 1) \/ (e < Len(url) /\ url[e + 1] = "/" /\ AtDollar(url, e + 2))

\* re.search(r"/(urn:ard:[^/]+)/?$", url): the matches as (start, end of
\* group); the search returns the leftmost start with the longest group
UrnMatches(url) ==
    {m \in (1..Len(url)) \X (1..Len(url)) :
        /\ url[m[1]] = "/"
        /\ m[2] >= m[1] + Len(URN_ARD) + 1
        /\ SubSeq(url, m[1] + 1, m[1] + Len(URN_ARD)) = URN_ARD
        /\ \A i \in (m[1] + Len(URN_ARD) + 1)..m[2] : url[i] # "/"
        /\ TailOk(url, m[2])}
\* re.search(r"/(\d+)/?$", url)
NumericMatches(url) ==
    {m \in (1..Len(url)) \X (1..Len(url)) :
        /\ url[m[1]] = "/"
        /\ m[2] >= m[1] + 1
        /\ \A i \in (m[1] + 1)..m[2] : url[i] \in Digits
        /\ TailOk(url, m[2])}
FirstMatch(ms) ==
    CHOOSE m \in ms : \A o \in ms : m[1] < o[1] \/ (m[1] = o[1] /\ m[2] >= o[2])
Group1(url, m) == SubSeq(url, m[1] + 1, m[2])

parse_url(url) ==
    LET parsed_url == UrlParse(url)
    IN IF parsed_url.netloc = <<>> \/ parsed_url.path = <<>> THEN NotResolved
       ELSE IF UrnMatches(url) # {}
            THEN determine_resource_type_from_id(Group1(url, FirstMatch(UrnMatches(url))))
       ELSE IF NumericMatches(url) # {}
            THEN ResourceInfo("program", Group1(url, FirstMatch(NumericMatches(url))))
       ELSE NotResolved

ResInit ==
    /\ rsKind \in {"id", "url"}
    /\ rsInput \in (IF rsKind = "id" THEN ResolverIds ELSE ResolverUrls)
    /\ rsResult = [state |-> "called"]

ResolveId ==
    /\ rsKind = "id"
    /\ rsResult.state = "called"
    /\ rsResult' = determine_resource_type_from_id(rsInput)
    /\ UNCHANGED <<rsKind, rsInput>>
    /\ UNCHANGED nonResVars

ResolveUrl ==
    /\ rsKind = "url"
    /\ rsResult.state = "called"
    /\ rsResult' = parse_url(rsInput)
    /\ UNCHANGED <<rsKind, rsInput>>
    /\ UNCHANGED nonResVars

InitResolver ==
    ReconInit /\ PoolIdle /\ PagesIdle /\ CacheIdle /\ LockIdle /\ StemIdle /\ CollIdle /\ ResInit /\ LaterIdle

NextResolver == ResolveId \/ ResolveUrl

SpecResolver == InitResolver /\ [][NextResolver]_vars

\* the rules as documented: the type of an id, "None" when no rule applies
AllIn(s, chars) == \A i \in 1..Len(s) : s[i] \in chars
\* non-empty, letters and digits only
Alnum(s) == s # <<>> /\ AllIn(s, Letters \cup Digits)
\* the same, or that followed by one newline
AlnumLine(s) == Alnum(s) \/ (s # <<>> /\ Last(s) = NL /\ Alnum(Front(s)))
\* line: a newline may end the letters and digits
DocumentedType(id, line) ==
    CASE StartsWith(id, URN_EPISODE) -> "episode"
      [] StartsWith(id, URN_PAGE) /\ ~StartsWith(id, URN_EPISODE) -> "collection"
      [] StartsWith(id, URN_ARD) /\ ~StartsWith(id, URN_EPISODE) /\ ~StartsWith(id, URN_PAGE) -> "program"
      [] ~StartsWith(id, URN_ARD) /\ id # <<>> /\ AllIn(id, Digits) -> "program"
      [] ~StartsWith(id, URN_ARD) /\ ~(id # <<>> /\ AllIn(id, Digits)) /\ (IF line THEN AlnumLine(id) ELSE Alnum(id)) -> "program"
      [] OTHER -> "None"
Documented(id, line) ==
    IF DocumentedType(id, line) = "None" THEN NotResolved
    ELSE ResourceInfo(DocumentedType(id, line), id)

\* the last segment of a URL, one trailing "/" set aside, with the place
\* where it starts
WithoutSlash(url) == IF url # <<>> /\ Last(url) = "/" THEN Front(url) ELSE url
SegmentStart(s) ==
    LET slashes == {i \in 1..Len(s) : s[i] = "/"}
    IN IF slashes = {} THEN 0 ELSE CHOOSE i \in slashes : \A j \in slashes : i >= j
LastSegment(s) == SubSeq(s, SegmentStart(s) + 1, Len(s))
IsUrn(seg) == StartsWith(seg, URN_ARD) /\ Len(seg) > Len(URN_ARD)
DocumentedUrl(url, line) ==
    LET s == WithoutSlash(url)
        seg == LastSegment(s)
    IN IF SegmentStart(s) = 0 THEN NotResolved
       ELSE IF IsUrn(seg) THEN Documented(seg, line)
       ELSE IF seg # <<>> /\ AllIn(seg, Digits) THEN ResourceInfo("program", seg)
       ELSE NotResolved
\* the same for a URL that may end in a newline, which a numeric segment
\* does not include
WithoutNewline(url) == IF url # <<>> /\ Last(url) = NL THEN Front(url) ELSE url
DocumentedUrlLine(url) ==
    IF UrlParse(url).netloc = <<>> \/ UrlParse(url).path = <<>> THEN NotResolved
    ELSE IF DocumentedUrl(url, TRUE) # NotResolved THEN DocumentedUrl(url, TRUE)
    ELSE DocumentedUrl(WithoutNewline(url), TRUE)

Resolved == rsResult.state = "returned"

FileRecords ==
    { f \in [ext : AudioExtensions, upper : BOOLEAN, bitrate : Bitrates \cup {NoBitrate}] :
        f.upper => f.ext = ".mp3" }

DistinctExts(s) == \A i, j \in 1..Len(s) : i # j => s[i].ext # s[j].ext

\* the listings of a group: every order of every choice of files
Listings ==
    { s \in UNION { [1..n -> FileRecords] : n \in 0..Cardinality(AudioExtensions) } :
        DistinctExts(s) }

ExtsOf(s) == { s[i].ext : i \in 1..Len(s) }

\* file_qualities: the files whose bitrate is known, in listing order
file_qualities(group_files) == SelectSeq(group_files, LAMBDA f : f.bitrate # NoBitrate)

\* best_file and best_file.endswith(".mp3")
BestEndsWithMp3(b) == b.has /\ b.ext = ".mp3" /\ ~b.upper

AsBest(f) == [has |-> TRUE, ext |-> f.ext, upper |-> f.upper, bitrate |-> f.bitrate]

\* the loop that finds the best file, after n entries of file_qualities
RECURSIVE FindBest(_, _)
FindBest(fq, n) ==
    IF n = 0 THEN NoBest
    ELSE LET b == FindBest(fq, n - 1)
             f == fq[n]
         IN  IF f.ext \in AacFamily
             THEN IF f.bitrate >= AacThreshold
                     /\ (~b.has \/ f.bitrate > b.bitrate \/ BestEndsWithMp3(b))
                  THEN AsBest(f) ELSE b
             ELSE IF f.ext = ".mp3"
             THEN IF ~b.has \/ (BestEndsWithMp3(b) /\ f.bitrate > b.bitrate)
                  THEN AsBest(f) ELSE b
             ELSE b

IsNotBest_always(f, best) == TRUE

\* info["path"] != best_file
IsNotBest(f, best) == f.ext # best.ext

\* the condition under which a file is appended to files_to_remove
SelectedForRemoval(f, fq, best) ==
    /\ IsNotBest(f, best)
    /\ \/ /\ f.ext = ".mp3"
          /\ f.bitrate <= Mp3Threshold
          /\ \E i \in 1..Len(fq) : fq[i].ext \in AacFamily
       \/ f.bitrate < best.bitrate

files_to_remove(fq, best) ==
    IF best.has THEN SelectSeq(fq, LAMBDA f : SelectedForRemoval(f, fq, best))
    ELSE <<>>

DiskAfterRemoval_anyway(disk, removed, dry_run) == disk \ removed

\* the removal loop: a dry run only counts
DiskAfterRemoval(disk, removed, dry_run) ==
    IF dry_run THEN disk ELSE disk \ removed

\* _compare_and_remove_files; failing: the files whose os.remove raises
_compare_and_remove_files(group_files, disk, dry_run, failing) ==
    LET fq == file_qualities(group_files)
        best == FindBest(fq, Len(fq))
        selected == ExtsOf(files_to_remove(fq, best))
        removed == IF dry_run THEN selected ELSE selected \ failing
    IN  IF Len(group_files) <= 1 \/ fq = <<>>
        THEN [counts |-> NoCounts, disk |-> disk, best |-> NoBest, selected |-> {}]
        ELSE [counts |-> [removed |-> Cardinality(removed),
                          errors |-> Cardinality(selected \ removed)],
              disk |-> DiskAfterRemoval(disk, removed, dry_run),
              best |-> best,
              selected |-> selected]

\* _process_folder_quality: the audio files of the folder as listed
ListedGroup == SelectSeq(qFiles, LAMBDA f : f.ext \in qDisk)

QualityInit ==
    /\ qFolder \in BOOLEAN
    /\ qFiles \in (IF qFolder THEN Listings ELSE {<<>>})
    /\ qDisk = ExtsOf(qFiles)
    /\ qPc = "dry"
    /\ qDry = [success |-> FALSE, counts |-> NoCounts]
    /\ qReal = [success |-> FALSE, counts |-> NoCounts]
    /\ qBest = NoBest
    /\ qSelected = {}

\* remove_lower_quality_files(folder, dry_run=True)
remove_lower_quality_files_dry_run ==
    /\ qPc = "dry"
    /\ qPc' = "real"
    /\ IF ~qFolder
       THEN /\ qDry' = [success |-> FALSE, counts |-> NoCounts]
            /\ UNCHANGED qDisk
       ELSE LET r == _compare_and_remove_files(ListedGroup, qDisk, TRUE, {})
            IN  /\ qDry' = [success |-> TRUE, counts |-> r.counts]
                /\ qDisk' = r.disk
    /\ UNCHANGED <<qFolder, qFiles, qReal, qBest, qSelected>>
    /\ UNCHANGED nonQualityVars

\* remove_lower_quality_files(folder, dry_run=False)
remove_lower_quality_files ==
    /\ qPc = "real"
    /\ qPc' = "done"
    /\ IF ~qFolder
       THEN /\ qReal' = [success |-> FALSE, counts |-> NoCounts]
            /\ UNCHANGED <<qDisk, qBest, qSelected>>
       ELSE \E failing \in SUBSET ExtsOf(ListedGroup) :
              LET r == _compare_and_remove_files(ListedGroup, qDisk, FALSE, failing)
              IN  /\ failing \subseteq r.selected
                  /\ qReal' = [success |-> TRUE, counts |-> r.counts]
                  /\ qDisk' = r.disk
                  /\ qBest' = r.best
                  /\ qSelected' = r.selected
    /\ UNCHANGED <<qFolder, qFiles, qDry>>
    /\ UNCHANGED nonQualityVars

InitQuality ==
    ReconInit /\ PoolIdle /\ PagesIdle /\ CacheIdle /\ LockIdle /\ StemIdle /\ CollIdle
    /\ ResIdle /\ QualityInit /\ MetaIdle /\ EnumIdle

NextQuality == remove_lower_quality_files_dry_run \/ remove_lower_quality_files

SpecQuality == InitQuality /\ [][NextQuality]_vars

\* the ranking as documented: an AAC/MP4/M4A file of at least 96 ranks above
\* every MP3; within one family the strictly higher bitrate ranks higher
IsAacClass(f) == f.ext \in AacFamily /\ f.bitrate >= AacThreshold
SameFamily(f, g) == (f.ext \in AacFamily) = (g.ext \in AacFamily)
RanksAbove(f, g) ==
    \/ IsAacClass(f) /\ g.ext = ".mp3"
    \/ SameFamily(f, g) /\ f.bitrate > g.bitrate

KnownFiles == { qFiles[i] : i \in { j \in 1..Len(qFiles) : qFiles[j].bitrate # NoBitrate } }
AllKnown == \A i \in 1..Len(qFiles) : qFiles[i].bitrate # NoBitrate
\* the files that rank above every other file of the group
Highest == { f \in KnownFiles : \A g \in KnownFiles \ {f} : RanksAbove(f, g) }

\* C21: in a group of at least two files with known bitrates that has a
\* highest-quality file, the real run selects exactly the other files for
\* removal, whatever the order of the listing.
C21_AllButHighestSelected ==
    (qPc = "done" /\ qFolder /\ Len(qFiles) >= 2 /\ AllKnown /\ Highest # {})
        => qSelected = ExtsOf(qFiles) \ { f.ext : f \in Highest }

\* C22: the dry run leaves every file of the folder in place, and the
\* removal count it reports is the number of files the real run on the same
\* folder selects for removal.
C22_DryRunOnlyCounts ==
    /\ qPc = "real" => qDisk = ExtsOf(qFiles)
    /\ qPc = "done" => /\ qDry.counts.removed = Cardinality(qSelected)
                       /\ qDry.counts.errors = 0
                       /\ qDry.success = qReal.success

\* a dry run that reported two removals, followed by a real run that removed
\* a file
C22_Witness ==
    /\ qPc = "done"
    /\ qDry.counts.removed = 2
    /\ qReal.counts.removed >= 1
    /\ qDisk # ExtsOf(qFiles)

UnknownExts == { qFiles[i].ext : i \in { j \in 1..Len(qFiles) : qFiles[j].bitrate = NoBitrate } }

\* C30: after the real run the best file is on disk, a file of unknown
\* bitrate is on disk and is not the best file, and a group that had a file
\* still has one.
C30_GroupNeverEmptied ==
    qPc = "done" =>
        /\ qBest.has => qBest.ext \in qDisk
        /\ UnknownExts \subseteq qDisk
        /\ qBest.ext \notin UnknownExts
        /\ qFiles # <<>> => qDisk # {}

\* a real run that removed a file from a group holding a file of unknown
\* bitrate
C30_Witness ==
    /\ qPc = "done"
    /\ UnknownExts # {}
    /\ qReal.counts.removed >= 1
    /\ qBest.has

(***************************************************************************)
(* Metadata write suppression: compare_json_content, safe_write_json and   *)
(* set_file_modification_time as _save_images_and_metadata and             *)
(* _save_collection_data call them.                                        *)
(***************************************************************************)
\* json.dump of a field value
DumpValue(x) ==
    IF x.t = "null" THEN "null"
    ELSE IF x.t = "int" THEN (IF x.v = 1 THEN "1" ELSE "2")
    ELSE (IF x.v = 1 THEN "1.0" ELSE "2.0")

\* json.load of a field value
LoadValue(s) ==
    IF s = "null" THEN JNull
    ELSE IF s = "1" THEN JInt(1)
    ELSE IF s = "2" THEN JInt(2)
    ELSE IF s = "1.0" THEN JFloat(1)
    ELSE JFloat(2)

\* json.dump(data, f, indent=4)
json_dump(data) == [kind |-> "json", duration |-> DumpValue(data.duration)]
\* json.load(f) of a well-formed text
json_load(text) == [duration |-> LoadValue(text.duration)]

\* == of Python on two field values: None only equals None, numbers compare
\* by value
PyEq(x, y) ==
    IF x.t = "null" \/ y.t = "null" THEN x.t = y.t ELSE x.v = y.v

\* what a metadata file may hold before the first save: nothing, a document,
\* a text cut short, or bytes that are not UTF-8
NumberTexts == {"null", "1", "1.0", "2", "2.0"}
MetaTexts ==
    [kind : {"json"}, duration : NumberTexts]
        \cup [kind : {"truncated", "binary"}, duration : {""}]
MetaFiles ==
    {NoMetaFile} \cup [text : MetaTexts, mtime : {StartTime}, readable : BOOLEAN]

compare_json_text_never(file, new_data) == "differs"

\* file_utils.compare_json_content on the file: "equal" (True), "differs"
\* (False), or "raises" (an exception other than JSONDecodeError and OSError)
compare_json_text(file, new_data) ==
    IF file = NoMetaFile THEN "differs"
    ELSE IF ~file.readable THEN "differs"
    ELSE IF file.text.kind = "truncated" THEN "differs"
    ELSE IF file.text.kind = "binary" THEN "raises"
    ELSE IF PyEq(json_load(file.text).duration, new_data.duration) THEN "equal"
    ELSE "differs"

\* file_utils.safe_write_json; w: how open() and json.dump go
safe_write_json(file, data, w, now) ==
    IF w = "ok" THEN [file EXCEPT !.text = json_dump(data), !.mtime = now]
    ELSE IF w = "partial"
    THEN [file EXCEPT !.text = [kind |-> "truncated", duration |-> ""], !.mtime = now]
    ELSE file

\* file_utils.set_file_modification_time; ok: the date parses and os.utime
\* succeeds
set_file_modification_time(file, ok) ==
    IF ok THEN [file EXCEPT !.mtime = PublishTime] ELSE file

\* a file created by open(..., "w") is readable
Created(file) == IF file = NoMetaFile THEN [file EXCEPT !.readable = TRUE] ELSE file

\* the branch both callers share: skip when compare_json_content is true,
\* else write and, after a successful write with a publish date, set the time
WriteUnlessEqual(kind, data, publish_date, w, utime_ok) ==
    LET cmp == compare_json_text(mFile, data)
        written == safe_write_json(Created(mFile), data, w, mNow)
        after == IF cmp # "differs" \/ w = "openfail" THEN mFile
                 ELSE IF w = "ok" /\ publish_date
                 THEN set_file_modification_time(written, utime_ok)
                 ELSE written
    IN  /\ mFile' = after
        /\ mHist' = Append(mHist, [kind |-> kind, doc |-> data, before |-> mFile,
                                   after |-> after, cmp |-> cmp,
                                   wrote |-> IF cmp = "differs" THEN w ELSE "no"])
        /\ mNow' = mNow + 1

MetaInit ==
    /\ mFile \in MetaFiles
    /\ mNow = StartTime + 1
    /\ mHist = <<>>

\* _save_images_and_metadata, the metadata part (an exception of
\* compare_json_content leaves it)
save_episode_metadata ==
    /\ Len(mHist) < MaxSaves
    /\ \E data \in MetaDocs, publish_date \in BOOLEAN, w \in WriteOutcomes, utime_ok \in BOOLEAN :
         WriteUnlessEqual("episode", data, publish_date, w, utime_ok)
    /\ UNCHANGED nonMetaVars

\* _save_collection_data, the metadata part (an exception of
\* compare_json_content is logged)
_save_collection_data ==
    /\ Len(mHist) < MaxSaves
    /\ \E data \in MetaDocs, publish_date \in BOOLEAN, w \in WriteOutcomes, utime_ok \in BOOLEAN :
         WriteUnlessEqual("collection", data, publish_date, w, utime_ok)
    /\ UNCHANGED nonMetaVars

InitMeta ==
    ReconInit /\ PoolIdle /\ PagesIdle /\ CacheIdle /\ LockIdle /\ StemIdle /\ CollIdle
    /\ ResIdle /\ QualityIdle /\ MetaInit /\ EnumIdle

NextMeta == save_episode_metadata \/ _save_collection_data

SpecMeta == InitMeta /\ [][NextMeta]_vars

\* the file parses, and to data equal to the document
ParsesEqualTo(file, data) ==
    /\ file # NoMetaFile
    /\ file.readable
    /\ file.text.kind = "json"
    /\ LET x == LoadValue(file.text.duration)
           y == data.duration
       IN  \/ x.t = "null" /\ y.t = "null"
           \/ x.t # "null" /\ y.t # "null" /\ x.v = y.v

\* the file cannot be read or does not parse
Corrupt(file) ==
    file # NoMetaFile /\ (~file.readable \/ file.text.kind \in {"truncated", "binary"})

LoopInit ==
    /\ pgFn \in [name : FetchFns \cup FindFns, download : {FALSE}]
    /\ pgSrv = [n |-> 0, cap |-> 0, honours |-> FALSE, free |-> TRUE]
    /\ pgLimit \in 0..MaxLoopLimit
    /\ pgPc = "loop"
    /\ pgOffset = 0
    /\ pgNodes = <<>>
    /\ pgReqs = <<>>
    /\ pgCache = {}
    /\ pgMeta = "none"
    /\ pgPages = <<>>

InitLoop ==
    ReconInit /\ PoolIdle /\ LoopInit /\ CacheIdle /\ LockIdle /\ StemIdle /\ CollIdle
    /\ ResIdle /\ LaterIdle

NextLoop ==
    \/ fetch_program_set_episodes
    \/ fetch_editorial_collection
    \/ find_program_sets_by_editorial_category_id
    \/ find_editorial_collections_by_editorial_category_id

SpecLoop == InitLoop /\ [][NextLoop]_vars

SpecLoopFair == SpecLoop /\ WF_vars(NextLoop)

\* the page of request i is empty, reports no next page, brings a new id
PageEmpty(i) == pgPages[i].nodes = <<>>
NoNextPage(i) == ~pgPages[i].has_next
SeenBefore(i) ==
    UNION { { pgPages[k].nodes[j] : j \in 1..Len(pgPages[k].nodes) } : k \in 1..(i - 1) }
BringsNew(i) == \E j \in 1..Len(pgPages[i].nodes) : pgPages[i].nodes[j] \notin SeenBefore(i)
IsLastRequest(i) == i = Len(pgPages)

\* what every loop keeps: one request per page, at offsets 0, 24, 48, ...,
\* and no more requests than the limit
RequestsInStep ==
    /\ Len(pgReqs) = Len(pgPages)
    /\ Len(pgPages) <= pgLimit
    /\ \A i \in 1..Len(pgReqs) : pgReqs[i].offset = PageSize * (i - 1)

\* the loop stops at the first page that is empty or reports no next page,
\* and otherwise once the accumulated count reaches the limit
StopsByFlag ==
    /\ \A i \in 1..Len(pgPages) : (PageEmpty(i) \/ NoNextPage(i)) => IsLastRequest(i)
    /\ (pgPc = "done" /\ pgPages # <<>> /\ ~PageEmpty(Len(pgPages)) /\ ~NoNextPage(Len(pgPages)))
           => Len(pgNodes) >= pgLimit
    /\ (pgPc = "done" /\ pgPages = <<>>) => pgLimit = 0

\* the loop stops at the first page that is empty or brings no new id, and
\* otherwise once the accumulated count reaches the limit
StopsByNewIds ==
    /\ \A i \in 1..Len(pgPages) : (PageEmpty(i) \/ ~BringsNew(i)) => IsLastRequest(i)
    /\ (pgPc = "done" /\ pgPages # <<>> /\ BringsNew(Len(pgPages)))
           => Len(pgNodes) >= pgLimit
    /\ (pgPc = "done" /\ pgPages = <<>>) => pgLimit = 0

SearchesCollections == pgFn.name = "find_editorial_collections_by_editorial_category_id"

\* C24 as stated: every loop ends, having stopped at the first page that is
\* empty or reports no next page or else when the count reached the limit,
\* with at most limit requests at offsets 24*(k-1).
C24_EveryLoopStopsByFlag ==
    /\ [](RequestsInStep /\ StopsByFlag)
    /\ <>(pgPc = "done")

\* C24: every loop ends, with at most limit requests at offsets 24*(k-1); the
\* loops of the program-set episodes, the editorial collection and the
\* program-set search stop at the first page that is empty or reports no
\* next page, the loop of the collection search at the first page that is
\* empty or brings no new collection id, whatever next-page flag it carries;
\* each stops otherwise once the count reached the limit.
C24_EveryLoopStops ==
    /\ [](RequestsInStep /\ (IF SearchesCollections THEN StopsByNewIds ELSE StopsByFlag))
    /\ <>(pgPc = "done")

\* a collection search that went on after a page reporting no next page and
\* ended with three requests at the limit of three
C24_Witness ==
    /\ pgPc = "done"
    /\ SearchesCollections
    /\ pgLimit = 3
    /\ Len(pgReqs) = 3
    /\ NoNextPage(1)
    /\ pgReqs[3].offset = 2 * PageSize

(***************************************************************************)
(* SpecFetch: one download of an episode that has several download and     *)
(* streaming URLs; the answers of the remote are kept.                     *)
(***************************************************************************)
\* two download and two streaming URLs
NodeFour == [audios |-> <<Audio(U_MP3, U_M4A), Audio(U_RAW, U_AAC)>>,
             image |-> "", image1 |-> "", doc |-> "doc1"]
\* one URL given both as download and as streaming URL
NodeShared == [audios |-> <<Audio(U_MP3, U_MP3), Audio(U_RAW, U_M4A)>>,
               image |-> "", image1 |-> "", doc |-> "doc1"]
FetchNodes == {NodeFour, NodeShared}

NextFetch ==
    \/ \E n \in FetchNodes : StartRemembered(n)
    \/ ExtractAudioUrl
    \/ EnsureDirectory
    \/ SaveWideImage
    \/ SaveSquareImage
    \/ SaveMetadata
    \/ SaveAudioCheck
    \/ DownloadAudioToFile
    \/ AudioCleanup
    \/ SaveNodesReturn

SpecFetch == Init /\ [][NextFetch]_vars

(* --------------------------- fallback semantics ------------------------ *)

\* what _fetch_and_validate_audio answers with None: a 404, or a 2xx body
\* under 1000 bytes that holds an error indicator
GaveNothing(g) ==
    \/ g.st = "404"
    \/ g.st = "ok" /\ g.body.len < SoftLimit /\ g.body.kind = "err"

\* the requests a step adds to the log
NewEvents == SubSeq(log', Len(log) + 1, Len(log'))

\* C25: a call of _download_audio_to_file issues one GET, for the preferred
\* URL, and a second one exactly when the first gave a 404 or an error-like
\* body and there is a second URL, which is distinct and is the one
\* requested; no other URL is requested; when no content was obtained the
\* target path is left as it was and the call returns False.
C25_FallbackOnce ==
    [][ pc = "audio_get" =>
          /\ Len(NewEvents) \in {1, 2}
          /\ NewEvents[1] = Ev("GET", urls[1])
          /\ Len(NewEvents) = 2 <=> (GaveNothing(h'.g1) /\ Len(urls) >= 2)
          /\ Len(NewEvents) = 2 => (urls[2] # urls[1] /\ NewEvents[2] = Ev("GET", urls[2]))
          /\ (pc' = "audio_cleanup" /\ faults' = faults)
                 => (files' = files /\ h'.dl = "false" /\ audioRet' = audioRet)
      ]_vars

\* the preferred URL gave a 404, the second of three URLs was requested and
\* gave nothing either
C25_Witness ==
    /\ pc = "audio_cleanup"
    /\ h.dl = "false"
    /\ h.g1.st = "404"
    /\ Len(urls) >= 3
    /\ Len(log) >= 2
    /\ log[Len(log)] = Ev("GET", urls[2])
    /\ log[Len(log) - 1] = Ev("GET", urls[1])

(* ---------------------------- audio URL priority ----------------------- *)

\* the non-empty URLs of the episode: download URLs, then streaming URLs,
\* each once
AllUrls == _merge_url_lists(CollectField(node.audios, "downloadUrl"),
                            CollectField(node.audios, "url"))
HasBothKinds ==
    CollectField(node.audios, "downloadUrl") # <<>> /\ CollectField(node.audios, "url") # <<>>
PositionIn(s, u) == CHOOSE i \in 1..Len(s) : s[i] = u
\* the HEAD of the URL succeeded; stated: and the response carried a
\* Content-Length (a response without the header is read as length 0)
Sized(u, stated) == remoteHead[u].st = "ok" /\ (stated => remoteHead[u].len > 0)
IsDownloadUrl(u) == InSeq(u, CollectField(node.audios, "downloadUrl"))
Extracted == cycle = 1 /\ pc \notin {"idle", "extract"}

\* each non-empty URL once; the sized URLs first, in descending length, a
\* download URL before a streaming URL of the same length; the other URLs
\* after them in their original relative order
OrderedBySize(stated) ==
    /\ { urls[i] : i \in 1..Len(urls) } = { AllUrls[i] : i \in 1..Len(AllUrls) }
    /\ Len(urls) = Len(AllUrls)
    /\ \A i, j \in 1..Len(urls) : i < j =>
         /\ Sized(urls[j], stated) => Sized(urls[i], stated)
         /\ (Sized(urls[i], stated) /\ Sized(urls[j], stated)) =>
              /\ remoteHead[urls[i]].len >= remoteHead[urls[j]].len
              /\ remoteHead[urls[i]].len = remoteHead[urls[j]].len
                     => (IsDownloadUrl(urls[j]) => IsDownloadUrl(urls[i]))
         /\ (~Sized(urls[i], stated) /\ ~Sized(urls[j], stated))
              => PositionIn(AllUrls, urls[i]) < PositionIn(AllUrls, urls[j])

C27_AudioReconciledWhateverBefore ==
    (pc = "ret" /\ urls # <<>> /\ dirExists) => audioRet # "none"

(* ------------------------- outcome after a restore --------------------- *)

\* C29: when _download_audio_to_file returned False, _save_audio_file
\* returns True exactly when a .bak was renamed back to the live name, and
\* the episode then counts as a success of _save_nodes; it returns False only
\* when nothing was put back: a backup made in this run is then still there
\* under its .bak name.
C29_RestoredCountsAsSuccess ==
    (pc \in {"ret", "done"} /\ h.dl = "false") =>
        LET path == audio_file_path(urls)
        IN  /\ audioRet = "True" <=> h.restore = "ok"
            /\ h.restore = "ok" => (Exists(files, path) /\ ~Exists(files, BackupPath(path)))
            /\ (audioRet = "False" /\ h.backup = "ok") => Exists(files, BackupPath(path))
            /\ pc = "done" =>
                 /\ result.success_count = (IF audioRet = "True" THEN 1 ELSE 0)
                 /\ result.error_count = (IF audioRet = "True" THEN 0 ELSE 1)

\* a download that failed after the old file was backed up, the backup
\* restored and the episode counted as downloaded
C29_Witness ==
    /\ pc = "done"
    /\ h.dl = "false"
    /\ h.backup = "ok"
    /\ h.restore = "ok"
    /\ audioRet = "True"
    /\ result.success_count = 1

\* ---- _download_collection: enumeration precedes downloading ----

\* the paginating function _download_collection calls
EnumFn == IF dcEditorial THEN "fetch_editorial_collection" ELSE "fetch_program_set_episodes"

\* except Exception as e: return DownloadResult(success=False, ..., error=e)
FailedResult == [returned |-> TRUE, success |-> FALSE, error |-> TRUE]
\* DownloadResult(success=True, message="No episodes found ...")
NothingFound == [returned |-> TRUE, success |-> TRUE, error |-> FALSE]
\* what the sequential loop of _save_nodes returns
save_nodes_result(c) ==
    [returned |-> TRUE, success |-> (c.error_count = 0 \/ c.success_count > 0),
     error |-> FALSE]

\* variant: a failed request is answered like a successful one
graphql_get_lenient(key, what, ok) ==
    IF dcCaching /\ key \in dcCache
    THEN [raised |-> FALSE, cache |-> dcCache, log |-> dcLog]
    ELSE IF ok
    THEN [raised |-> FALSE,
          cache |-> IF dcCaching THEN dcCache \cup {key} ELSE dcCache,
          log |-> Append(dcLog, what)]
    ELSE [raised |-> FALSE, cache |-> dcCache, log |-> Append(dcLog, what \o "_failed")]
\* _graphql_get: a key the cache holds is answered without a request; any
\* other is requested, and the request is answered and stored (ok) or raises
\* GraphQLError
graphql_get(key, what, ok) ==
    IF dcCaching /\ key \in dcCache
    THEN [raised |-> FALSE, cache |-> dcCache, log |-> dcLog]
    ELSE IF ok
    THEN [raised |-> FALSE,
          cache |-> IF dcCaching THEN dcCache \cup {key} ELSE dcCache,
          log |-> Append(dcLog, what)]
    ELSE [raised |-> TRUE, cache |-> dcCache, log |-> Append(dcLog, what \o "_failed")]

\* if not nodes: return DownloadResult(success=True, ...); else _save_nodes
AfterEnumeration(nodes) ==
    IF nodes = <<>>
    THEN dcPc' = "done" /\ dcResult' = NothingFound
    ELSE dcPc' = "save" /\ dcResult' = dcResult

\* one iteration of the while loop of the paginating function, inside the
\* try of _download_collection
enumerate_page ==
    /\ dcPc = "pages"
    /\ LET remaining == Max2(0, FetchLimit - Len(dcNodes))
           count == RequestCount(remaining)
           key == GraphqlKey(QueryOf(EnumFn), dcOffset, count)
       IN \E ok \in BOOLEAN, answer \in ServerAnswers(dcSrv, dcOffset, count) :
          LET got == graphql_get(key, "page", ok)
              more == answer.nodes # <<>> /\ WhileHasNext(answer.nodes, answer.has_next)
              nodes == Extend(dcNodes, answer.nodes)
          IN /\ dcLog' = got.log
             /\ dcCache' = got.cache
             /\ IF got.raised
                THEN /\ dcPc' = "done"
                     /\ dcResult' = FailedResult
                     /\ UNCHANGED <<dcOffset, dcNodes, dcData>>
                ELSE /\ dcNodes' = nodes
                     /\ dcData' = IF dcEditorial THEN (dcData \/ dcSrv.n > 0) ELSE dcData
                     /\ IF more
                        THEN /\ dcOffset' = NextOffset(dcOffset)
                             /\ UNCHANGED <<dcPc, dcResult>>
                        ELSE /\ dcOffset' = dcOffset
                             /\ IF dcEditorial
                                THEN AfterEnumeration(nodes)
                                ELSE dcPc' = "data" /\ dcResult' = dcResult
    /\ UNCHANGED <<dcEditorial, dcSrv, dcCaching, dcIdx, dcCounts, dcTree>>
    /\ UNCHANGED nonEnumVars

\* raw_collection_data = self.client.get_program_set_data(resource_id) or {}
enumerate_program_set_data ==
    /\ dcPc = "data"
    /\ \E ok \in BOOLEAN :
       LET got == graphql_get(GraphqlKey("ProgramSetEpisodesQuery", 0, 1), "data", ok)
       IN /\ dcLog' = got.log
          /\ dcCache' = got.cache
          /\ IF got.raised
             THEN dcPc' = "done" /\ dcResult' = FailedResult /\ dcData' = dcData
             ELSE dcData' = (dcSrv.n > 0) /\ AfterEnumeration(dcNodes)
    /\ UNCHANGED <<dcEditorial, dcSrv, dcCaching, dcOffset, dcNodes, dcIdx, dcCounts, dcTree>>
    /\ UNCHANGED nonEnumVars

\* how _process_single_node ends for one node: no audio URL, the folder could
\* not be made, an exception after the folder was made, or the audio file
\* reconciled with True or False
NodeOutcomes == {"no_audio", "no_folder", "raised", "True", "False"}

FolderEntry == [what |-> "folder", n |-> 0]
EpisodeEntry(i) == [what |-> "episode", n |-> i]
CollectionEntry == [what |-> "collection", n |-> 0]

\* one pass of the loop of _save_nodes over _process_single_node
enumerate_process_single_node ==
    /\ dcPc = "save"
    /\ dcIdx < Len(dcNodes)
    /\ \E ending \in NodeOutcomes :
       /\ dcLog' = CASE ending = "no_audio" -> dcLog
                     [] ending = "no_folder" -> Append(dcLog, "mkdir_failed")
                     [] ending = "raised" -> Append(dcLog, "mkdir")
                     [] OTHER -> dcLog \o <<"mkdir", "asset">>
       /\ dcTree' = CASE ending \in {"no_audio", "no_folder"} -> dcTree
                      [] ending = "raised" -> dcTree \cup {FolderEntry}
                      [] OTHER -> dcTree \cup {FolderEntry, EpisodeEntry(dcNodes[dcIdx + 1])}
       /\ dcCounts' = IF ending = "True"
                      THEN [dcCounts EXCEPT !.success_count = @ + 1]
                      ELSE [dcCounts EXCEPT !.error_count = @ + 1]
       /\ dcIdx' = dcIdx + 1
       /\ IF dcIdx' < Len(dcNodes) THEN UNCHANGED <<dcPc, dcResult>>
          ELSE IF dcData THEN dcPc' = "metadata" /\ dcResult' = dcResult
          ELSE dcPc' = "done" /\ dcResult' = save_nodes_result(dcCounts')
    /\ UNCHANGED <<dcEditorial, dcSrv, dcOffset, dcNodes, dcData, dcCaching, dcCache>>
    /\ UNCHANGED nonEnumVars

\* how _save_collection_metadata ends: the folder could not be made, the
\* record and the cover were reconciled, or the lock of the cover raised
CollectionOutcomes == {"no_folder", "saved", "lock_raised"}

\* self._save_collection_metadata(raw_collection_data, nodes, folder, ...)
enumerate_save_collection_metadata ==
    /\ dcPc = "metadata"
    /\ \E ending \in CollectionOutcomes, cover \in BOOLEAN :
       /\ dcLog' = CASE ending = "no_folder" -> Append(dcLog, "mkdir_failed")
                     [] ending = "saved" /\ cover -> dcLog \o <<"mkdir", "write", "asset">>
                     [] OTHER -> dcLog \o <<"mkdir", "write">>
       /\ dcTree' = IF ending = "no_folder" THEN dcTree
                    ELSE dcTree \cup {FolderEntry, CollectionEntry}
       /\ dcResult' = IF ending = "lock_raised" THEN FailedResult
                      ELSE save_nodes_result(dcCounts)
    /\ dcPc' = "done"
    /\ UNCHANGED <<dcEditorial, dcSrv, dcOffset, dcNodes, dcData, dcCaching, dcCache,
                   dcIdx, dcCounts>>
    /\ UNCHANGED nonEnumVars

\* the keys a cache may hold from an earlier run
EarlierKeys(editorial) ==
    {GraphqlKey(QueryOf(IF editorial THEN "fetch_editorial_collection"
                        ELSE "fetch_program_set_episodes"), 0, PageSize),
     GraphqlKey("ProgramSetEpisodesQuery", 0, 1)}

EnumInit ==
    /\ dcEditorial \in BOOLEAN
    /\ dcSrv \in [n : 0..MaxListed, cap : {MockPageLen, PageSize}, honours : BOOLEAN,
                  free : {FALSE}]
    /\ dcPc = "pages"
    /\ dcOffset = 0
    /\ dcNodes = <<>>
    /\ dcData = FALSE
    /\ dcCaching \in BOOLEAN
    /\ dcCache \in (IF dcCaching THEN SUBSET EarlierKeys(dcEditorial) ELSE {{}})
    /\ dcIdx = 0
    /\ dcCounts = [success_count |-> 0, error_count |-> 0]
    /\ dcTree = {}
    /\ dcLog = <<>>
    /\ dcResult = NoDownloadResult

InitEnum ==
    ReconInit /\ PoolIdle /\ PagesIdle /\ CacheIdle /\ LockIdle /\ StemIdle /\ CollIdle
    /\ ResIdle /\ QualityIdle /\ MetaIdle /\ EnumInit

NextEnum ==
    \/ enumerate_page
    \/ enumerate_program_set_data
    \/ enumerate_process_single_node
    \/ enumerate_save_collection_metadata

SpecEnum == InitEnum /\ [][NextEnum]_vars

\* requests of the GraphQL API, and requests of assets
ApiRequests == {"page", "page_failed", "data", "data_failed"}
PageFailed == \E i \in 1..Len(dcLog) : dcLog[i] = "page_failed"
\* every request of the API was issued before the first request of an asset
EnumeratedFirst ==
    \A i, j \in 1..Len(dcLog) :
        (i < j /\ dcLog[i] = "asset") => dcLog[j] \notin ApiRequests
\* the cache database got a row in this run
CacheWritten == dcCaching /\ \E i \in 1..Len(dcLog) : dcLog[i] \in {"page", "data"}

\* C28 as stated: every request of a page precedes the first request of an
\* asset, and after a failed request of a page no folder or file at all was
\* created or modified and the operation returns a failed DownloadResult
C28_NothingWrittenAfterFailedPage ==
    /\ EnumeratedFirst
    /\ PageFailed =>
        /\ dcTree = {}
        /\ ~CacheWritten
        /\ dcPc = "done" /\ dcResult = FailedResult

\* C28, amended: every request of a page precedes the first request of an
\* asset, and after a failed request of a page no folder or file of the
\* output tree was created or modified and the operation returns a failed
\* DownloadResult; the pages answered before stay in the response cache
C28_OutputUntouchedAfterFailedPage ==
    /\ EnumeratedFirst
    /\ PageFailed =>
        /\ dcTree = {}
        /\ \A i \in 1..Len(dcLog) : dcLog[i] \notin {"mkdir", "write", "asset"}
        /\ dcPc = "done" /\ dcResult = FailedResult

\* the second page failed after the first was answered
C28_Witness ==
    /\ dcPc = "done"
    /\ dcLog = <<"page", "page_failed">>
    /\ dcNodes # <<>>
    /\ dcResult = FailedResult
    /\ dcTree = {}

====
